---- MODULE Spec2Model ----
(***************************************************************************)
(* Load balancing and health tracking of yapf (yapf/src/load_balancer):    *)
(* Health::observe_health, the selection strategies, Backends,             *)
(* LoadBalancer and its background health-check loop; and the request      *)
(* pipeline of the proxy (yapf/src/proxy.rs).                              *)
(*                                                                         *)
(* Vec indices keep the 0-based values of the code; a TLA+ sequence that   *)
(* models a Vec is read at index + 1.                                      *)
(***************************************************************************)
EXTENDS Integers, Sequences, FiniteSets, TLC

VARIABLES
    backends,      \* Backends.backends and the strategy's copy of it
    kind,          \* the Strategy type T of LoadBalancer<T>
    weighted,      \* WeightedRoundRobin.weighted
    current,       \* RoundRobin.current / WeightedRoundRobin.current_index
    health_check,  \* Backends.health_check: <<>> (None) or <<HealthCheck>>
    health,        \* Backends.health: hash key -> HealthInner
    hcPc,          \* position of a run_health_check() call: "idle"/"running"
    hcIdx,         \* index of the next backend the running call probes
    runLog,        \* probe results of the current (or last) run, in order
    prevLog,       \* probe results of the run before that one
    nRuns,         \* number of run_health_check() calls made
    probes,        \* number of HealthCheck::check calls made
    lastNext,      \* outcome of the last LoadBalancer::next() call
    queried,       \* outcome of the last direct Backends::is_healthy call
    returned,      \* indices returned by direct Strategy::get_next calls
    obsLog,        \* direct Health::observe_health calls, in order
    everFailed,    \* a run_health_check() has recorded a failing probe
    req,           \* the request process_request is handling
    health_check_interval,  \* LoadBalancer.health_check_interval, an Option
    shutdown,      \* value of the shutdown watch channel
    signalled,     \* bgPc, bgLog and health when shutdown was signaled
    bgPc,          \* position of BackgroundService::start
    now,           \* local `now` of BackgroundService::start
    next_health_check,      \* local `next_health_check` of the same
    bgLog,         \* what the background loop did, in order
    tasks,         \* concurrent callers: task -> position and locals
    stored,        \* the records Health::observe_health calls have stored
    seen,          \* what the last load of a concurrent reader returned
    addresses,     \* <<the argument of LoadBalancer::try_from_vec>>, if called
    given,         \* the Vec<Backend> handed to LoadBalancer::new
    built          \* how the construction of the LoadBalancer ended

vars == <<backends, kind, weighted, current, health_check, health, hcPc,
          hcIdx, runLog, prevLog, nRuns, probes, lastNext, queried, returned,
          obsLog, everFailed, req, health_check_interval, shutdown,
          signalled, bgPc, now,
          next_health_check, bgLog, tasks,
          stored, seen, addresses, given, built>>

\* the variables of the constructors of LoadBalancer
ctorVars == <<addresses, given, built>>

\* the variables of concurrent callers
taskVars == <<tasks, stored, seen>>

\* the variables of process_request and of BackgroundService::start
serviceVars == <<req, health_check_interval, shutdown, signalled, bgPc, now,
                 next_health_check, bgLog>>

(***************************************************************************)
(* Bounds of the model                                                     *)
(***************************************************************************)
MaxThreshold == 2   \* flip thresholds are drawn from 0..MaxThreshold
MaxObs == 4         \* direct observe_health calls per behaviour
MaxPool == 3        \* backends in a pool
MaxCalls == 12      \* direct get_next calls per behaviour
MaxLBPool == 2      \* backends in the pool of a Backends / LoadBalancer
MaxRuns == 2        \* run_health_check() calls per behaviour
MaxCursor == 3      \* next() is called while the cursor is below this
MaxRequests == 2    \* requests process_request handles per behaviour
MaxLate == 1        \* how long after its deadline a sleep may end
MaxTasks == 2       \* tasks that call into one object concurrently
MaxTaskCalls == 6   \* get_next calls the concurrent tasks make in all

\* Option::None of an index, and of the optional HealthCheck
None == -1
NoCheck == <<>>

(***************************************************************************)
(* Backend (mod.rs)                                                        *)
(***************************************************************************)
DefaultWeight == 100

\* Backend::new(addr)
Backend(addr) == [addr |-> addr, weight |-> DefaultWeight]

\* Backend::with_weight
WithWeight(b, weight) == [b EXCEPT !.weight = weight]

\* Backend::hash_key: #[derive(Hash)] feeds addr and weight to the hasher, so
\* equal backends have equal keys; the key is modelled by the hashed fields.
HashKey(b) == <<b.addr, b.weight>>

(***************************************************************************)
(* Health (helthcheck.rs)                                                  *)
(***************************************************************************)
\* Health::default
HealthDefault == [healthy |-> TRUE, health_counter |-> 0]

\* Health::healthy
Healthy(h) == h.healthy

\* observe_health flipping only once the counter exceeds the threshold
ObserveHealthStrict(h, healthy, flip_threshold) ==
    IF h.healthy # healthy
    THEN LET counter == h.health_counter + 1 IN
         IF counter > flip_threshold
         THEN [rec |-> [healthy |-> healthy, health_counter |-> 0],
               flipped |-> TRUE]
         ELSE [rec |-> [h EXCEPT !.health_counter = counter],
               flipped |-> FALSE]
    ELSE IF h.health_counter > 0
         THEN [rec |-> [h EXCEPT !.health_counter = 0], flipped |-> FALSE]
         ELSE [rec |-> h, flipped |-> FALSE]

\* observe_health without the reset on a matching observation
ObserveHealthNoReset(h, healthy, flip_threshold) ==
    IF h.healthy # healthy
    THEN LET counter == h.health_counter + 1 IN
         IF counter >= flip_threshold
         THEN [rec |-> [healthy |-> healthy, health_counter |-> 0],
               flipped |-> TRUE]
         ELSE [rec |-> [h EXCEPT !.health_counter = counter],
               flipped |-> FALSE]
    ELSE [rec |-> h, flipped |-> FALSE]

\* Health::observe_health: the record stored and the value returned
ObserveHealth(h, healthy, flip_threshold) ==
    IF h.healthy # healthy
    THEN LET counter == h.health_counter + 1 IN
         IF counter >= flip_threshold
         THEN [rec |-> [healthy |-> healthy, health_counter |-> 0],
               flipped |-> TRUE]
         ELSE [rec |-> [h EXCEPT !.health_counter = counter],
               flipped |-> FALSE]
    ELSE IF h.health_counter > 0
         THEN [rec |-> [h EXCEPT !.health_counter = 0], flipped |-> FALSE]
         ELSE [rec |-> h, flipped |-> FALSE]

(***************************************************************************)
(* Strategy (strategy.rs)                                                  *)
(***************************************************************************)
\* the outcome of a call that panics
Panic == -2

U16 == 65536   \* Backend.weight and max_iterations are u16

\* num_integer::gcd
RECURSIVE Gcd(_, _)
Gcd(m, n) == IF n = 0 THEN m ELSE Gcd(n, m % n)

Max(a, b) == IF a >= b THEN a ELSE b

\* u16::saturating_sub
SaturatingSub(a, b) == IF a >= b THEN a - b ELSE 0

\* compute_weighted, first loop: weights, max_weight and gcd after the first n
\* backends
RECURSIVE Scan(_, _)
Scan(bs, n) ==
    IF n = 0
    THEN [weights |-> <<>>, max_weight |-> 0, gcd |-> 0]
    ELSE LET acc == Scan(bs, n - 1) IN
         [weights |-> Append(acc.weights, bs[n].weight),
          max_weight |-> Max(acc.max_weight, bs[n].weight),
          gcd |-> Gcd(acc.gcd, bs[n].weight)]

\* the loop of compute_weighted testing `>` where the code tests `>=`
RECURSIVE WeightedLoopStrict(_, _, _, _, _)
WeightedLoopStrict(weights, gcd, current_index, current_weight, acc) ==
    LET idx == (current_index + 1) % Len(weights)
        cw == IF idx = 0 THEN SaturatingSub(current_weight, gcd)
                         ELSE current_weight
    IN IF idx = 0 /\ cw = 0
       THEN acc
       ELSE WeightedLoopStrict(weights, gcd, idx, cw,
                               IF weights[idx + 1] > cw THEN Append(acc, idx)
                                                        ELSE acc)

\* compute_weighted, the `loop`: one iteration and the rest
RECURSIVE WeightedLoop(_, _, _, _, _)
WeightedLoop(weights, gcd, current_index, current_weight, acc) ==
    LET idx == (current_index + 1) % Len(weights)
        cw == IF idx = 0 THEN SaturatingSub(current_weight, gcd)
                         ELSE current_weight
    IN IF idx = 0 /\ cw = 0
       THEN acc
       ELSE WeightedLoop(weights, gcd, idx, cw,
                         IF weights[idx + 1] >= cw THEN Append(acc, idx)
                                                   ELSE acc)

\* (0..backends.len()).collect()
Identity(n) == [i \in 1..n |-> i - 1]

\* compute_weighted without the early return for equal weights
ComputeWeightedNoShortcut(bs) ==
    LET s == Scan(bs, Len(bs)) IN
    IF s.gcd = 0 THEN Identity(Len(bs))
    ELSE WeightedLoop(s.weights, s.gcd, 0, s.max_weight, <<>>)

\* WeightedRoundRobin::compute_weighted
ComputeWeighted(bs) ==
    LET s == Scan(bs, Len(bs)) IN
    IF \A i \in 1..Len(bs) : s.weights[i] = s.max_weight
    THEN Identity(Len(bs))
    ELSE WeightedLoop(s.weights, s.gcd, 0, s.max_weight, <<>>)

\* Strategy::build: the precomputed table (only WeightedRoundRobin has one)
Build(k, bs) == IF k = "WeightedRoundRobin" THEN ComputeWeighted(bs) ELSE <<>>

\* RoundRobin::get_next reading the cursor without advancing it
RoundRobinGetNextStuck(bs, cur) ==
    IF Len(bs) = 0 THEN [ret |-> None, current |-> cur]
    ELSE [ret |-> cur % Len(bs), current |-> cur]

\* RoundRobin::get_next: the index returned (None on an empty pool) and the
\* cursor after the call.  fetch_add wraps at 2^64, beyond every bound here.
RoundRobinGetNext(bs, cur) ==
    IF Len(bs) = 0 THEN [ret |-> None, current |-> cur]
    ELSE [ret |-> cur % Len(bs), current |-> cur + 1]

\* Random::get_next, rnd standing for rand::random::<usize>()
RandomGetNext(bs, cur, rnd) ==
    IF Len(bs) = 0 THEN [ret |-> None, current |-> cur]
    ELSE [ret |-> rnd % Len(bs), current |-> cur]

\* WeightedRoundRobin::get_next: `index % self.weighted.len()` panics when the
\* table is empty, after the fetch_add
WeightedRoundRobinGetNext(bs, w, cur) ==
    IF Len(bs) = 0 THEN [ret |-> None, current |-> cur]
    ELSE IF Len(w) = 0 THEN [ret |-> Panic, current |-> cur + 1]
    ELSE [ret |-> w[(cur % Len(w)) + 1], current |-> cur + 1]

\* the weights WeightedRandom::build collects from the backends
WeightsOf(bs) == [i \in 1..Len(bs) |-> bs[i].weight]

RECURSIVE SumTo(_, _)
\* ws[1] + ... + ws[n]
SumTo(ws, n) == IF n = 0 THEN 0 ELSE SumTo(ws, n - 1) + ws[n]

\* WeightedAliasIndex::<u16>::new(ws) returns an error for an empty list, for
\* a weight above u16::MAX / n and for weights that sum to zero; build
\* unwraps the result
AliasIndexError(ws) ==
    IF Len(ws) = 0 THEN TRUE
    ELSE \/ \E i \in 1..Len(ws) : ws[i] > (U16 - 1) \div Len(ws)
         \/ SumTo(ws, Len(ws)) = 0

RECURSIVE Sample(_, _, _)
\* WeightedAliasIndex::sample: index i is drawn with probability
\* ws[i] / sum, here the index whose share of 0..sum-1 holds the draw r
Sample(ws, i, r) ==
    IF r < ws[i] THEN i - 1 ELSE Sample(ws, i + 1, r - ws[i])

\* one draw for every index WeightedAliasIndex::sample can give
WeightedDraws(bs) ==
    {SumTo(WeightsOf(bs), i - 1) : i \in {j \in 1..Len(bs) : bs[j].weight > 0}}

\* WeightedRandom::get_next, rnd standing for the draw of thread_rng()
WeightedRandomGetNext(bs, cur, rnd) ==
    IF Len(bs) = 0 THEN [ret |-> None, current |-> cur]
    ELSE [ret |-> Sample(WeightsOf(bs), 1, rnd), current |-> cur]

\* Strategy::get_next of strategy type k
GetNext(k, bs, w, cur, rnd) ==
    CASE k = "RoundRobin" -> RoundRobinGetNext(bs, cur)
      [] k = "Random" -> RandomGetNext(bs, cur, rnd)
      [] k = "WeightedRoundRobin" -> WeightedRoundRobinGetNext(bs, w, cur)
      [] k = "WeightedRandom" -> WeightedRandomGetNext(bs, cur, rnd)

(***************************************************************************)
(* One Health record driven by sequential observe_health calls             *)
(***************************************************************************)
TheBackend == Backend("1.0.0.1")

\* the LoadBalancer was built by LoadBalancer::new, which returned; its
\* argument is not kept
ViaNew ==
    /\ addresses = <<>>
    /\ given = <<>>
    /\ built = "ok"

\* no concurrent caller
NoTasks ==
    /\ tasks = <<>>
    /\ stored = {}
    /\ seen = <<>>

\* no request accepted yet
IdleReq == [n |-> 0, pc |-> "idle", trace |-> <<>>, uri |-> <<>>,
            upstream_addr_clone |-> <<>>, upstream |-> <<>>,
            responses |-> <<>>]

\* no request is handled and no background loop is started;
\* LoadBalancer::new leaves health_check_interval None
NoServices ==
    /\ req = IdleReq
    /\ health_check_interval = <<>>
    /\ shutdown = FALSE
    /\ signalled = <<>>
    /\ bgPc = "notStarted"
    /\ now = 0
    /\ next_health_check = 0
    /\ bgLog = <<>>

\* no next() call made yet
IdleLastNext == [tick |-> 0, result |-> None, calls |-> 0, idle |-> TRUE]

InitHealth ==
    /\ backends = <<TheBackend>>
    /\ kind = "RoundRobin"
    /\ weighted = <<>>
    /\ current = 0
    /\ health_check = NoCheck
    /\ health = [k \in {HashKey(TheBackend)} |-> HealthDefault]
    /\ hcPc = "idle"
    /\ hcIdx = 0
    /\ runLog = <<>>
    /\ prevLog = <<>>
    /\ nRuns = 0
    /\ probes = 0
    /\ lastNext = IdleLastNext
    /\ queried = <<>>
    /\ returned = <<>>
    /\ obsLog = <<>>
    /\ everFailed = FALSE
    /\ ViaNew
    /\ NoTasks
    /\ NoServices

\* health.observe_health(obs, thr) called directly on the record
ObserveHealthCall(obs, thr) ==
    /\ Len(obsLog) < MaxObs
    /\ LET k == HashKey(TheBackend)
           out == ObserveHealth(health[k], obs, thr)
       IN /\ health' = [health EXCEPT ![k] = out.rec]
          /\ obsLog' = Append(obsLog, [obs |-> obs, thr |-> thr,
                                       before |-> health[k],
                                       flipped |-> out.flipped])
    /\ UNCHANGED <<ctorVars, backends, kind, weighted, current, health_check,
                   hcPc,
                   hcIdx, runLog, prevLog, nRuns, probes, lastNext, queried,
                   returned>>
    /\ UNCHANGED <<everFailed, serviceVars, taskVars>>

NextHealth == \E obs \in BOOLEAN, thr \in 0..MaxThreshold :
                  ObserveHealthCall(obs, thr)

SpecHealth == InitHealth /\ [][NextHealth]_vars

TheRecord == health[HashKey(TheBackend)]

\* the record each logged call left behind: the next call's "before", or the
\* current record for the last call
After(i) == IF i < Len(obsLog) THEN obsLog[i + 1].before ELSE TheRecord

\* C2: in a sequential series of observe_health(obs, T) calls with T >= 1 the
\* flag changes in a call iff obs differs from the flag and counter + 1 >= T;
\* a flipping call stores counter 0 and returns true, every other call
\* returns false.
C2_FlipExactlyAtThreshold ==
    \A i \in 1..Len(obsLog) :
        LET e == obsLog[i]
            shouldFlip == /\ e.obs # e.before.healthy
                          /\ e.before.health_counter + 1 >= e.thr
        IN e.thr >= 1 =>
             /\ (After(i).healthy # e.before.healthy) <=> shouldFlip
             /\ e.flipped <=> shouldFlip
             /\ shouldFlip => After(i).health_counter = 0

\* a call with threshold 2 flipped the record after a call that did not
C2_Witness ==
    /\ Len(obsLog) >= 2
    /\ obsLog[Len(obsLog)].thr = 2
    /\ obsLog[Len(obsLog)].flipped
    /\ ~obsLog[Len(obsLog) - 1].flipped
    /\ TheRecord = [healthy |-> FALSE, health_counter |-> 0]

Fail2 == [obs |-> FALSE, thr |-> 2]
Ok2 == [obs |-> TRUE, thr |-> 2]

Calls(n) == [i \in 1..n |-> [obs |-> obsLog[i].obs, thr |-> obsLog[i].thr]]

\* C3: a call whose observation equals the flag stores counter 0 and leaves
\* the flag alone, so a later flip needs T fresh disagreeing observations:
\* with T = 2, fail, success, fail leaves the backend healthy and only a
\* second consecutive failure flips it.
C3_MatchResetsCounter ==
    /\ \A i \in 1..Len(obsLog) :
          obsLog[i].obs = obsLog[i].before.healthy =>
             /\ After(i) = [healthy |-> obsLog[i].before.healthy,
                            health_counter |-> 0]
             /\ \A m \in (i + 1)..Len(obsLog) :
                   /\ obsLog[m].flipped
                   /\ \A j \in (i + 1)..m : obsLog[j].thr = obsLog[m].thr
                   => m - i >= obsLog[m].thr
    /\ (Len(obsLog) >= 3 /\ Calls(3) = <<Fail2, Ok2, Fail2>>) =>
          /\ After(3) = [healthy |-> TRUE, health_counter |-> 1]
          /\ \A i \in 1..3 : ~obsLog[i].flipped
    /\ (Len(obsLog) >= 4 /\ Calls(4) = <<Fail2, Ok2, Fail2, Fail2>>) =>
          /\ After(4) = [healthy |-> FALSE, health_counter |-> 0]
          /\ obsLog[4].flipped

\* fail, success, fail, fail with threshold 2 has been observed
C3_Witness ==
    /\ Len(obsLog) = 4
    /\ Calls(4) = <<Fail2, Ok2, Fail2, Fail2>>
    /\ ~TheRecord.healthy

(***************************************************************************)
(* One Strategy driven by sequential get_next calls                        *)
(***************************************************************************)
AddrOf == <<"1.0.0.1", "1.0.0.2", "1.0.0.3", "1.0.0.4", "1.0.0.5">>

WeightSet == {0, 100, 200, 300}

\* pools of up to MaxPool backends at distinct addresses
Pools ==
    UNION {{[i \in 1..n |-> WithWeight(Backend(AddrOf[i]), ws[i])] :
               ws \in [1..n -> WeightSet]} : n \in 0..MaxPool}

\* Backends::new: one default Health per hash key of the pool
NewHealth(bs) == [k \in {HashKey(bs[i]) : i \in 1..Len(bs)} |-> HealthDefault]

InitStrategy ==
    /\ backends \in Pools
    /\ kind \in {"RoundRobin", "WeightedRoundRobin"}
    /\ weighted = Build(kind, backends)
    /\ current = 0
    /\ health_check = NoCheck
    /\ health = NewHealth(backends)
    /\ hcPc = "idle"
    /\ hcIdx = 0
    /\ runLog = <<>>
    /\ prevLog = <<>>
    /\ nRuns = 0
    /\ probes = 0
    /\ lastNext = IdleLastNext
    /\ queried = <<>>
    /\ returned = <<>>
    /\ obsLog = <<>>
    /\ everFailed = FALSE
    /\ ViaNew
    /\ NoTasks
    /\ NoServices

\* strategy.get_next() called directly, by a single caller
GetNextCall ==
    /\ Len(returned) < MaxCalls
    /\ LET out == GetNext(kind, backends, weighted, current, 0)
       IN /\ current' = out.current
          /\ returned' = Append(returned, out.ret)
    /\ UNCHANGED <<ctorVars, backends, kind, weighted, health_check, health,
                   hcPc,
                   hcIdx, runLog, prevLog, nRuns, probes, lastNext, queried,
                   obsLog>>
    /\ UNCHANGED <<everFailed, serviceVars, taskVars>>

NextStrategy == GetNextCall

SpecStrategy == InitStrategy /\ [][NextStrategy]_vars

Count(x, seq) == Cardinality({k \in 1..Len(seq) : seq[k] = x})

AllEqualWeights ==
    \A i, j \in 1..Len(backends) : backends[i].weight = backends[j].weight

\* C5: RoundRobin over N >= 1 backends returns backends[k mod N] on its
\* (k+1)-th call, so every N consecutive calls return each backend exactly
\* once, in pool order.
C5_RoundRobinCycles ==
    (kind = "RoundRobin" /\ Len(backends) >= 1) =>
        LET N == Len(backends) IN
        /\ \A k \in 0..(Len(returned) - 1) : returned[k + 1] = k % N
        /\ \A s \in 0..(Len(returned) - N) : \A i \in 0..(N - 1) :
              Cardinality({k \in (s + 1)..(s + N) : returned[k] = i}) = 1
        /\ current = Len(returned)

\* three backends, four full cycles
C5_Witness ==
    /\ kind = "RoundRobin"
    /\ Len(backends) = 3
    /\ Len(returned) = 12
    /\ returned[12] = 2

\* C6: for weights that are not all equal, one full period of the
\* WeightedRoundRobin sequence returns backend i exactly
\* weight_i / gcd(weights) times, whatever its position in the pool.
C6_ProportionalCounts ==
    (/\ kind = "WeightedRoundRobin"
     /\ ~AllEqualWeights
     /\ Len(weighted) >= 1
     /\ Len(returned) = Len(weighted)) =>
        LET g == Scan(backends, Len(backends)).gcd IN
        \A i \in 1..Len(backends) :
            Count(i - 1, returned) = backends[i].weight \div g

Period7 == <<2, 1, 2, 0, 1, 2>>

Weights123 ==
    /\ kind = "WeightedRoundRobin"
    /\ Len(backends) = 3
    /\ backends[1].weight = 100
    /\ backends[2].weight = 200
    /\ backends[3].weight = 300

\* C7: WeightedRoundRobin over A, B, C with weights 100, 200, 300 returns
\* C, B, C, A, B, C on six consecutive calls and repeats that period.
C7_Sequence123 ==
    Weights123 =>
        /\ \A k \in 0..(Len(returned) - 1) :
              returned[k + 1] = Period7[(k % 6) + 1]
        /\ Len(returned) >= 6 =>
              /\ Count(2, SubSeq(returned, 1, 6)) = 3
              /\ Count(1, SubSeq(returned, 1, 6)) = 2
              /\ Count(0, SubSeq(returned, 1, 6)) = 1

\* two full periods over the weights 100, 200, 300
C7_Witness ==
    /\ Weights123
    /\ Len(returned) = 12
    /\ SubSeq(returned, 7, 12) = Period7

\* C8: when all weights are equal WeightedRoundRobin returns the sequence
\* RoundRobin returns over the same pool: backends[k mod N] on the (k+1)-th
\* call.
C8_EqualWeightsIsRoundRobin ==
    (kind = "WeightedRoundRobin" /\ AllEqualWeights) =>
        \A k \in 0..(Len(returned) - 1) :
            /\ returned[k + 1] = RoundRobinGetNext(backends, k).ret
            /\ Len(backends) >= 1 => returned[k + 1] = k % Len(backends)

\* three backends of equal weight, more than one cycle
C8_Witness ==
    /\ kind = "WeightedRoundRobin"
    /\ Len(backends) = 3
    /\ AllEqualWeights
    /\ Len(returned) >= 4
    /\ returned[4] = 0

(***************************************************************************)
(* Backends (mod.rs)                                                       *)
(***************************************************************************)
\* a HealthCheck, by what health_threshold returns for a failed and for a
\* successful probe
HealthChecks == {[fail |-> 1, ok |-> 1], [fail |-> 1, ok |-> 2],
                 [fail |-> 2, ok |-> 2]}

\* the threshold of the opposite result applied: the one for leaving the
\* state the probe confirms, not the one the observed result asks for
HealthThresholdOfOpposite(success) ==
    IF success THEN health_check[1].fail ELSE health_check[1].ok

\* HealthCheck::health_threshold(success) of the configured check
HealthThreshold(success) ==
    IF success THEN health_check[1].ok ELSE health_check[1].fail

\* is_healthy defaulting to true for a backend without a record
IsHealthyAssumeTrue(backend) ==
    IF HashKey(backend) \in DOMAIN health
    THEN Healthy(health[HashKey(backend)])
    ELSE TRUE

\* is_healthy never consulting the record
IsHealthyIgnoreRecord(backend) == TRUE

\* Backends::is_healthy
IsHealthy(backend) ==
    IF HashKey(backend) \in DOMAIN health
    THEN Healthy(health[HashKey(backend)])
    ELSE health_check = NoCheck

\* Backends::run_health_check up to its first await: returns at once when no
\* HealthCheck is configured (or the pool is empty), else starts the loop
RunHealthCheckBegin ==
    /\ hcPc = "idle"
    /\ nRuns < MaxRuns
    /\ nRuns' = nRuns + 1
    /\ prevLog' = runLog
    /\ runLog' = <<>>
    /\ hcIdx' = 0
    /\ hcPc' = IF health_check # NoCheck /\ Len(backends) > 0
               THEN "running" ELSE "idle"
    /\ UNCHANGED <<ctorVars, backends, kind, weighted, current, health_check,
                   health,
                   probes, lastNext, queried, returned, obsLog, everFailed>>

\* run_health_check without the early return: with no HealthCheck it probes
\* every backend with a check that fails at threshold 1
RunHealthCheckUnguarded ==
    /\ hcPc = "idle"
    /\ nRuns < MaxRuns
    /\ nRuns' = nRuns + 1
    /\ prevLog' = runLog
    /\ runLog' = <<>>
    /\ hcIdx' = 0
    /\ IF health_check = NoCheck
       THEN /\ hcPc' = "idle"
            /\ probes' = probes + Len(backends)
            /\ health' = [k \in DOMAIN health |->
                             ObserveHealth(health[k], FALSE, 1).rec]
       ELSE /\ hcPc' = IF Len(backends) > 0 THEN "running" ELSE "idle"
            /\ UNCHANGED <<probes, health>>
    /\ UNCHANGED <<ctorVars, backends, kind, weighted, current, health_check,
                   lastNext,
                   queried, returned, obsLog>>
    /\ UNCHANGED <<everFailed, serviceVars, taskVars>>

\* Backends::run_health_check
RunHealthCheck ==
    /\ RunHealthCheckBegin
    /\ UNCHANGED <<serviceVars, taskVars>>

\* run_health_check giving up at the first failed probe, as a loop using `?`
\* on the result of the check would
CheckAndReportStopsOnFailure(ok) ==
    /\ hcPc = "running"
    /\ LET backend == backends[hcIdx + 1]
           k == HashKey(backend)
       IN health' = IF k \in DOMAIN health /\ ok
                    THEN [health EXCEPT
                            ![k] = ObserveHealth(health[k], ok,
                                                 HealthThreshold(ok)).rec]
                    ELSE health
    /\ probes' = probes + 1
    /\ runLog' = Append(runLog, ok)
    /\ hcIdx' = hcIdx + 1
    /\ hcPc' = IF ok /\ hcIdx + 1 < Len(backends) THEN "running" ELSE "idle"
    /\ UNCHANGED <<ctorVars, backends, kind, weighted, current, health_check,
                   prevLog,
                   nRuns, lastNext, queried, returned, obsLog>>
    /\ everFailed' = (everFailed \/ ~ok)
    /\ UNCHANGED <<serviceVars, taskVars>>

\* Backends::check_and_report for the backend at hcIdx, the probe answering
\* ok; the loop of run_health_check then moves on, or ends after the last
\* backend
CheckAndReport(ok) ==
    /\ hcPc = "running"
    /\ LET backend == backends[hcIdx + 1]
           k == HashKey(backend)
       IN health' = IF k \in DOMAIN health
                    THEN [health EXCEPT
                            ![k] = ObserveHealth(health[k], ok,
                                                 HealthThreshold(ok)).rec]
                    ELSE health
    /\ probes' = probes + 1
    /\ runLog' = Append(runLog, ok)
    /\ hcIdx' = hcIdx + 1
    /\ hcPc' = IF hcIdx + 1 < Len(backends) THEN "running" ELSE "idle"
    /\ UNCHANGED <<ctorVars, backends, kind, weighted, current, health_check,
                   prevLog,
                   nRuns, lastNext, queried, returned, obsLog>>
    /\ everFailed' = (everFailed \/ ~ok)
    /\ UNCHANGED <<serviceVars, taskVars>>

\* backends.is_healthy(backend) called directly, as the tests of mod.rs do
IsHealthyCall(backend) ==
    /\ queried' = <<[backend |-> backend,
                     result |-> IsHealthy(backend),
                     record |-> IF HashKey(backend) \in DOMAIN health
                                THEN <<health[HashKey(backend)]>>
                                ELSE <<>>]>>
    /\ UNCHANGED <<ctorVars, backends, kind, weighted, current, health_check,
                   health,
                   hcPc, hcIdx, runLog, prevLog, nRuns, probes, lastNext,
                   returned, obsLog>>
    /\ UNCHANGED <<everFailed, serviceVars, taskVars>>

(***************************************************************************)
(* LoadBalancer (mod.rs)                                                   *)
(***************************************************************************)
\* LoadBalancer::select_with: get_next is called until it yields a healthy
\* backend, at most max_iterations times; rnd[i] is the random number of the
\* i-th call.  Gives the outcome, the cursor left behind and the number of
\* get_next calls made.
RECURSIVE SelectWith(_, _, _, _)
SelectWith(max_iterations, cur, calls, rnd) ==
    IF max_iterations = 0
    THEN [result |-> None, current |-> cur, calls |-> calls]
    ELSE LET out == GetNext(kind, backends, weighted, cur, rnd[calls + 1]) IN
         IF out.ret = None \/ out.ret = Panic
         THEN [result |-> out.ret, current |-> out.current,
               calls |-> calls + 1]
         ELSE IF IsHealthy(backends[out.ret + 1])
              THEN [result |-> out.ret, current |-> out.current,
                    calls |-> calls + 1]
              ELSE SelectWith(max_iterations - 1, out.current, calls + 1, rnd)

\* the random numbers one next() call may draw: only Random and
\* WeightedRandom draw any; for Random only the value modulo the pool size
\* matters
Draws ==
    CASE kind = "Random" -> [1..Len(backends) -> 0..(Len(backends) - 1)]
      [] kind = "WeightedRandom" ->
            [1..Len(backends) -> WeightedDraws(backends)]
      [] OTHER -> {[i \in 1..Len(backends) |-> 0]}

\* `self.backends.backends.len() as u16`, the max_iterations next() passes
IterationBound == Len(backends) % U16

\* LoadBalancer::next, with `self.backends.backends.len() as u16`: what the
\* call can give, over the random numbers it may draw
NextOutcomes ==
    {SelectWith(IterationBound, current, 0, rnd) : rnd \in Draws}

\* a LoadBalancer::next call
Next ==
    /\ current < MaxCursor
    /\ \E out \in NextOutcomes :
          /\ current' = out.current
          /\ lastNext' = [tick |-> 1 - lastNext.tick,
                          result |-> out.result,
                          calls |-> out.calls,
                          idle |-> hcPc = "idle"]
    /\ UNCHANGED <<ctorVars, backends, kind, weighted, health_check, health,
                   hcPc, hcIdx,
                   runLog, prevLog, nRuns, probes, queried, returned, obsLog>>
    /\ UNCHANGED <<everFailed, serviceVars, taskVars>>

(***************************************************************************)
(* Backends and LoadBalancer under health checks                           *)
(***************************************************************************)
BackendSet == {Backend("1.0.0.1"), Backend("1.0.0.2"),
               WithWeight(Backend("1.0.0.2"), 0)}

\* pools of up to MaxLBPool backends, the same backend possibly listed twice
LBPools == UNION {[1..n -> BackendSet] : n \in 0..MaxLBPool}

InitBackends ==
    /\ backends \in LBPools
    /\ kind = "RoundRobin"
    /\ weighted = <<>>
    /\ current = 0
    /\ health_check \in {NoCheck} \cup {<<hc>> : hc \in HealthChecks}
    /\ health = NewHealth(backends)
    /\ hcPc = "idle"
    /\ hcIdx = 0
    /\ runLog = <<>>
    /\ prevLog = <<>>
    /\ nRuns = 0
    /\ probes = 0
    /\ lastNext = IdleLastNext
    /\ queried = <<>>
    /\ returned = <<>>
    /\ obsLog = <<>>
    /\ everFailed = FALSE
    /\ ViaNew
    /\ NoTasks
    /\ NoServices

NextBackends ==
    \/ RunHealthCheck
    \/ \E ok \in BOOLEAN : CheckAndReport(ok)
    \/ \E backend \in BackendSet : IsHealthyCall(backend)

SpecBackends == InitBackends /\ [][NextBackends]_vars

\* LoadBalancer::new followed by an optional set_health_check
Init ==
    /\ backends \in LBPools
    /\ kind \in {"RoundRobin", "Random", "WeightedRoundRobin"}
    /\ weighted = Build(kind, backends)
    /\ current = 0
    /\ health_check \in {NoCheck} \cup {<<hc>> : hc \in HealthChecks}
    /\ health = NewHealth(backends)
    /\ hcPc = "idle"
    /\ hcIdx = 0
    /\ runLog = <<>>
    /\ prevLog = <<>>
    /\ nRuns = 0
    /\ probes = 0
    /\ lastNext = IdleLastNext
    /\ queried = <<>>
    /\ returned = <<>>
    /\ obsLog = <<>>
    /\ everFailed = FALSE
    /\ ViaNew
    /\ NoTasks
    /\ NoServices

NextLB ==
    \/ RunHealthCheck
    \/ \E ok \in BOOLEAN : CheckAndReport(ok)
    \/ Next

Spec == Init /\ [][NextLB]_vars

AllUnhealthy == \A i \in 1..Len(backends) : ~IsHealthy(backends[i])

\* C1: next() never returns a backend whose health record was unhealthy when
\* next() examined it, calls strategy.get_next() at most pool_size times per
\* invocation, and returns None when every backend of the pool is unhealthy.
C1_NextSkipsUnhealthy ==
    [][lastNext'.tick # lastNext.tick =>
          LET r == lastNext'.result IN
          /\ (r # None /\ r # Panic) => IsHealthy(backends[r + 1])
          /\ lastNext'.calls <= Len(backends)
          /\ AllUnhealthy => r = None]_vars

\* two distinct backends behind RoundRobin, every flip threshold being 1
TwoBackendsThresholdOne ==
    /\ kind = "RoundRobin"
    /\ Len(backends) = 2
    /\ backends[1] # backends[2]
    /\ health_check = <<[fail |-> 1, ok |-> 1]>>

\* C4: with flip threshold 1 and a RoundRobin pool of two backends, after a
\* run_health_check() in which only backend 2's probe fails every next()
\* returns backend 1, and after a run in which backend 1's probe fails too
\* next() returns None.
C4_EndToEnd ==
    [][(/\ lastNext'.tick # lastNext.tick
        /\ TwoBackendsThresholdOne
        /\ hcPc = "idle"
        /\ nRuns > 0) =>
          /\ runLog = <<TRUE, FALSE>> =>
                /\ lastNext'.result = 0
                /\ health[HashKey(backends[1])].healthy
                /\ ~health[HashKey(backends[2])].healthy
          /\ runLog = <<FALSE, FALSE>> =>
                /\ lastNext'.result = None
                /\ ~health[HashKey(backends[1])].healthy
                /\ ~health[HashKey(backends[2])].healthy]_vars

\* backend 2 failed in one run, both failed in the next, and a next() called
\* after that run had returned gave None
C4_Witness ==
    /\ TwoBackendsThresholdOne
    /\ nRuns = 2
    /\ hcPc = "idle"
    /\ prevLog = <<TRUE, FALSE>>
    /\ runLog = <<FALSE, FALSE>>
    /\ lastNext.calls = 2
    /\ lastNext.idle
    /\ lastNext.result = None

\* C9 as stated: is_healthy returns the stored flag when a record exists and
\* true when none exists, whether or not a HealthCheck is configured.
C9_AbsentIsHealthy ==
    \A i \in 1..Len(queried) :
        /\ queried[i].record # <<>> =>
              queried[i].result = queried[i].record[1].healthy
        /\ queried[i].record = <<>> => queried[i].result = TRUE

\* C9 amended: is_healthy returns the stored flag when a record exists; when
\* none exists it returns true if no HealthCheck is configured and false if
\* one is.
C9_AbsentFollowsHealthCheck ==
    \A i \in 1..Len(queried) :
        /\ queried[i].record # <<>> =>
              queried[i].result = queried[i].record[1].healthy
        /\ queried[i].record = <<>> =>
              queried[i].result = (health_check = NoCheck)

\* a backend outside the pool was queried with a HealthCheck configured
C9_Witness ==
    /\ Len(queried) = 1
    /\ queried[1].record = <<>>
    /\ health_check # NoCheck
    /\ queried[1].result = FALSE
    /\ \E k \in DOMAIN health : ~health[k].healthy

\* C10: without a HealthCheck, run_health_check() performs no probe, changes
\* no health record and returns, so every backend stays healthy.
C10_NoCheckNoEffect ==
    health_check = NoCheck =>
        /\ probes = 0
        /\ health = NewHealth(backends)
        /\ hcPc = "idle"
        /\ \A i \in 1..Len(backends) : IsHealthy(backends[i])

\* run_health_check() was called twice on a non-empty pool without a check
C10_Witness ==
    /\ health_check = NoCheck
    /\ Len(backends) >= 1
    /\ nRuns = 2
    /\ hcPc = "idle"

(***************************************************************************)
(* A LoadBalancer over a pool of 65536 backends                            *)
(***************************************************************************)
\* vec![b; 2^k]
RECURSIVE Repeat(_, _)
Repeat(b, k) ==
    IF k = 0 THEN <<b>>
    ELSE LET half == Repeat(b, k - 1) IN half \o half

\* vec![Backend::new("1.0.0.1"); 65536]
WidePool == Repeat(Backend("1.0.0.1"), 16)

\* LoadBalancer::<RoundRobin>::new(WidePool), no HealthCheck set
InitWide ==
    /\ backends = WidePool
    /\ kind = "RoundRobin"
    /\ weighted = <<>>
    /\ current = 0
    /\ health_check = NoCheck
    /\ health = NewHealth(backends)
    /\ hcPc = "idle"
    /\ hcIdx = 0
    /\ runLog = <<>>
    /\ prevLog = <<>>
    /\ nRuns = 0
    /\ probes = 0
    /\ lastNext = IdleLastNext
    /\ queried = <<>>
    /\ returned = <<>>
    /\ obsLog = <<>>
    /\ everFailed = FALSE
    /\ ViaNew
    /\ NoTasks
    /\ NoServices

NextWide ==
    \/ Next
    \/ GetNextCall
    \/ RunHealthCheck
    \/ \E backend \in BackendSet : IsHealthyCall(backend)

SpecWide == InitWide /\ [][NextWide]_vars

\* C11: right after LoadBalancer::new every backend of the pool is healthy
\* with counter 0, and until a run_health_check() records a failing probe
\* next() returns exactly the backend strategy.get_next() returns, also when
\* a HealthCheck is configured but has not run yet.
C11_FreshPoolPassesThrough ==
    /\ [](~everFailed =>
            \A i \in 1..Len(backends) :
               /\ HashKey(backends[i]) \in DOMAIN health
               /\ health[HashKey(backends[i])] = HealthDefault)
    /\ [][(lastNext'.tick # lastNext.tick /\ ~everFailed) =>
            \E rnd \in 0..Max(Len(backends) - 1, 0) :
               lastNext'.result =
                  GetNext(kind, backends, weighted, current, rnd).ret]_vars

(***************************************************************************)
(* The request pipeline (proxy.rs, proxy_trait.rs)                         *)
(*                                                                         *)
(* req.pc names the stage process_request runs next.  req.trace logs the   *)
(* hooks and upstream calls made for the request: the stage, the argument  *)
(* the claims speak of and what the call returned, None / Ok(()) / Err(_)  *)
(* of the upstream being <<>> and Some(x) / Err(response) / Ok(response)   *)
(* being <<x>>.  req.responses are the responses process_request returned. *)
(***************************************************************************)
\* Uri::from_str / Uri::from_static of an authority
Uri(authority) == [authority |-> authority]

\* the URI of the inbound request, and the URIs a hook may come up with
InboundUri == Uri("proxy.local")
Uris == {Uri("1.0.0.1"), Uri("1.0.0.2")}

\* Response::builder().status(status).body(empty_body())
StatusResponse(status) == [status |-> status, headers |-> {}, body |-> ""]

\* responses a hook may return, and responses the upstream may give
HookResponses == {[status |-> 403, headers |-> {"x-hook"}, body |-> "hook"]}
UpstreamResponses ==
    {[status |-> 200, headers |-> {"server"}, body |-> "upstream"]}

\* Response::into_parts and Response::from_parts
IntoParts(response) ==
    [parts |-> [status |-> response.status, headers |-> response.headers],
     body |-> response.body]
FromParts(parts, body) ==
    [status |-> parts.status, headers |-> parts.headers, body |-> body]

\* what response_filter may leave in the `&mut ResponseHeaders` it is given
Edits(parts) ==
    {parts,
     [parts EXCEPT !.headers = @ \cup {"via"}],
     [parts EXCEPT !.headers = {}, !.status = 204]}

Called(stage, arg, ret) == [stage |-> stage, arg |-> arg, ret |-> ret]

\* `return Ok(response)`
Return(r, response) ==
    [r EXCEPT !.pc = "done", !.responses = Append(@, response)]

\* every variable but req
notReq == <<ctorVars, backends, kind, weighted, current, health_check,
            health, hcPc, hcIdx, runLog, prevLog, nRuns, probes, lastNext,
            queried, returned, obsLog, everFailed, taskVars,
            health_check_interval, shutdown, signalled, bgPc, now,
            next_health_check, bgLog>>

\* process_request is entered for a new request and calls new_ctx
ProcessRequest ==
    /\ req.pc \in {"idle", "done"}
    /\ req.n < MaxRequests
    /\ req' = [n |-> req.n + 1,
               pc |-> "request_filter",
               trace |-> <<Called("new_ctx", <<>>, <<>>)>>,
               uri |-> <<InboundUri>>,
               upstream_addr_clone |-> <<>>,
               upstream |-> <<>>,
               responses |-> <<>>]
    /\ UNCHANGED notReq

\* request_filter answering an explicit response without returning it
RequestFilterIgnored(ret) ==
    /\ req.pc = "request_filter"
    /\ req' = [req EXCEPT
                  !.trace = Append(@, Called("request_filter", <<>>, ret)),
                  !.pc = "upstream_addr"]
    /\ UNCHANGED notReq

\* request_filter: Err(response) is returned, Ok(()) goes on
RequestFilter(ret) ==
    /\ req.pc = "request_filter"
    /\ LET r == [req EXCEPT
                   !.trace = Append(@, Called("request_filter", <<>>, ret))]
       IN req' = IF ret # <<>>
                 THEN Return(r, ret[1])
                 ELSE [r EXCEPT !.pc = "upstream_addr"]
    /\ UNCHANGED notReq

\* the value of upstream_addr stored, or the 503 of `None`
AfterUpstreamAddr(ret) ==
    LET r == [req EXCEPT
                !.trace = Append(@, Called("upstream_addr", <<>>, ret))]
    IN IF ret = <<>>
       THEN Return(r, StatusResponse(503))
       ELSE [r EXCEPT !.upstream_addr_clone = ret,
                      !.uri = ret,
                      !.pc = "upstream_request_filter"]

\* upstream_addr whose None is taken for an address still to be filtered
UpstreamAddrNoneForwarded(ret) ==
    /\ req.pc = "upstream_addr"
    /\ req' = [req EXCEPT
                 !.trace = Append(@, Called("upstream_addr", <<>>, ret)),
                 !.upstream_addr_clone = ret,
                 !.uri = ret,
                 !.pc = "upstream_request_filter"]
    /\ UNCHANGED notReq

\* upstream_addr of any Proxy: None or Some(uri)
UpstreamAddr(ret) ==
    /\ req.pc = "upstream_addr"
    /\ req' = AfterUpstreamAddr(ret)
    /\ UNCHANGED notReq

\* upstream_addr of examples/load_balancer.rs:
\* self.0.next().map(|b| Uri::from_str(b.addr.as_str()).unwrap())
UpstreamAddrNext ==
    /\ req.pc = "upstream_addr"
    /\ current < MaxCursor
    /\ \E out \in NextOutcomes :
          /\ out.result # Panic
          /\ current' = out.current
          /\ lastNext' = [tick |-> 1 - lastNext.tick,
                          result |-> out.result,
                          calls |-> out.calls,
                          idle |-> hcPc = "idle"]
          /\ req' = AfterUpstreamAddr(
                       IF out.result = None THEN <<>>
                       ELSE <<Uri(backends[out.result + 1].addr)>>)
    /\ UNCHANGED <<ctorVars, backends, kind, weighted, health_check, health,
                   hcPc, hcIdx,
                   runLog, prevLog, nRuns, probes, queried, returned, obsLog,
                   everFailed, taskVars, health_check_interval, shutdown,
                   signalled, bgPc, now,
                   next_health_check, bgLog>>

\* upstream_request_filter: the hook may rewrite the request head it is lent,
\* the URI included
UpstreamRequestFilter(uri) ==
    /\ req.pc = "upstream_request_filter"
    /\ req' = [req EXCEPT
                 !.trace = Append(@, Called("upstream_request_filter",
                                            <<>>, <<>>)),
                 !.uri = <<uri>>,
                 !.pc = "forward"]
    /\ UNCHANGED notReq

\* the forward whose success skips upstream_latency
ForwardNoLatency(ret) ==
    /\ req.pc = "forward"
    /\ req' = [req EXCEPT
                 !.trace = Append(@, Called("forward", req.uri, ret)),
                 !.upstream = ret,
                 !.pc = IF ret = <<>> THEN "fail_to_connect"
                        ELSE "response_filter"]
    /\ UNCHANGED notReq

\* proxy.upstream.request(request): Err(err) or Ok(upstream_response)
Forward(ret) ==
    /\ req.pc = "forward"
    /\ req' = [req EXCEPT
                 !.trace = Append(@, Called("forward", req.uri, ret)),
                 !.upstream = ret,
                 !.pc = IF ret = <<>> THEN "fail_to_connect"
                        ELSE "upstream_latency"]
    /\ UNCHANGED notReq

\* fail_to_connect handed the URI the request was sent to
FailToConnectSentUri(ret) ==
    /\ req.pc = "fail_to_connect"
    /\ LET r == [req EXCEPT
                   !.trace = Append(@, Called("fail_to_connect", req.uri,
                                              ret))]
       IN req' = IF ret # <<>>
                 THEN Return(r, ret[1])
                 ELSE Return(r, StatusResponse(500))
    /\ UNCHANGED notReq

\* fail_to_connect that returns nothing when the hook gives no response
FailToConnectSilent(ret) ==
    /\ req.pc = "fail_to_connect"
    /\ LET r == [req EXCEPT
                   !.trace = Append(@, Called("fail_to_connect",
                                              req.upstream_addr_clone, ret))]
       IN req' = IF ret # <<>>
                 THEN Return(r, ret[1])
                 ELSE [r EXCEPT !.pc = "done"]
    /\ UNCHANGED notReq

\* fail_to_connect that also reports the failure to the backend's record
FailToConnectReports(ret) ==
    /\ req.pc = "fail_to_connect"
    /\ LET r == [req EXCEPT
                   !.trace = Append(@, Called("fail_to_connect",
                                              req.upstream_addr_clone, ret))]
       IN req' = IF ret # <<>>
                 THEN Return(r, ret[1])
                 ELSE Return(r, StatusResponse(500))
    /\ health' = [k \in DOMAIN health |->
                     IF k[1] = req.upstream_addr_clone[1].authority
                     THEN ObserveHealth(health[k], FALSE, 1).rec
                     ELSE health[k]]
    /\ UNCHANGED <<ctorVars, backends, kind, weighted, current, health_check,
                   hcPc,
                   hcIdx, runLog, prevLog, nRuns, probes, lastNext, queried,
                   returned, obsLog, everFailed, taskVars,
                   health_check_interval,
                   shutdown, signalled, bgPc, now, next_health_check, bgLog>>

\* the Err arm of the forward: fail_to_connect(&mut ctx, &upstream_addr_clone,
\* err), its response or a 500
FailToConnect(ret) ==
    /\ req.pc = "fail_to_connect"
    /\ LET r == [req EXCEPT
                   !.trace = Append(@, Called("fail_to_connect",
                                              req.upstream_addr_clone, ret))]
       IN req' = IF ret # <<>>
                 THEN Return(r, ret[1])
                 ELSE Return(r, StatusResponse(500))
    /\ UNCHANGED notReq

\* upstream_latency
UpstreamLatency ==
    /\ req.pc = "upstream_latency"
    /\ req' = [req EXCEPT
                 !.trace = Append(@, Called("upstream_latency", <<>>, <<>>)),
                 !.pc = "response_filter"]
    /\ UNCHANGED notReq

\* response_filter whose changes to the response head are dropped
ResponseFilterDropsEdits(parts, ret) ==
    /\ req.pc = "response_filter"
    /\ parts \in Edits(IntoParts(req.upstream[1]).parts)
    /\ LET r == [req EXCEPT
                   !.trace = Append(@, Called("response_filter", <<parts>>,
                                              ret))]
       IN req' = IF ret # <<>>
                 THEN Return(r, ret[1])
                 ELSE Return(r, req.upstream[1])
    /\ UNCHANGED notReq

\* response_filter(&mut parts, ..): the hook leaves `parts` in the response
\* head and returns Err(response) or Ok(()); then
\* Response::from_parts(parts, Either::Right(body))
ResponseFilter(parts, ret) ==
    /\ req.pc = "response_filter"
    /\ parts \in Edits(IntoParts(req.upstream[1]).parts)
    /\ LET r == [req EXCEPT
                   !.trace = Append(@, Called("response_filter", <<parts>>,
                                              ret))]
       IN req' = IF ret # <<>>
                 THEN Return(r, ret[1])
                 ELSE Return(r, FromParts(parts,
                                          IntoParts(req.upstream[1]).body))
    /\ UNCHANGED notReq

\* the parts of every response_filter argument
AllParts == UNION {Edits(IntoParts(u).parts) : u \in UpstreamResponses}

\* Option / Result of a hook that may answer with a response
MaybeResponse == {<<>>} \cup {<<h>> : h \in HookResponses}

\* one step of process_request
PipelineStep ==
    \/ ProcessRequest
    \/ \E ret \in MaybeResponse : RequestFilter(ret)
    \/ \E ret \in {<<>>} \cup {<<u>> : u \in Uris} : UpstreamAddr(ret)
    \/ UpstreamAddrNext
    \/ \E uri \in Uris : UpstreamRequestFilter(uri)
    \/ \E ret \in {<<>>} \cup {<<u>> : u \in UpstreamResponses} : Forward(ret)
    \/ \E ret \in MaybeResponse : FailToConnect(ret)
    \/ UpstreamLatency
    \/ \E parts \in AllParts, ret \in MaybeResponse : ResponseFilter(parts, ret)

\* a proxy whose upstream_addr may use a RoundRobin LoadBalancer over two
\* backends, with or without a HealthCheck
InitProxy ==
    /\ backends = <<Backend("1.0.0.1"), Backend("1.0.0.2")>>
    /\ kind = "RoundRobin"
    /\ weighted = <<>>
    /\ current = 0
    /\ health_check \in {NoCheck, <<[fail |-> 1, ok |-> 1]>>}
    /\ health = NewHealth(backends)
    /\ hcPc = "idle"
    /\ hcIdx = 0
    /\ runLog = <<>>
    /\ prevLog = <<>>
    /\ nRuns = 0
    /\ probes = 0
    /\ lastNext = IdleLastNext
    /\ queried = <<>>
    /\ returned = <<>>
    /\ obsLog = <<>>
    /\ everFailed = FALSE
    /\ ViaNew
    /\ NoTasks
    /\ NoServices

NextProxy ==
    \/ PipelineStep
    \/ RunHealthCheck
    \/ \E ok \in BOOLEAN : CheckAndReport(ok)

SpecProxy == InitProxy /\ [][NextProxy]_vars

\* the hooks and the upstream call return: a request under way takes its
\* next step
FairSpecProxy == SpecProxy /\ WF_vars(PipelineStep)

\* the stages invoked for the request, in order
Stages == [i \in 1..Len(req.trace) |-> req.trace[i].stage]

\* the positions of a stage in the trace of the request
Ran(stage) == {i \in 1..Len(req.trace) : req.trace[i].stage = stage}

IsPrefix(s, t) == Len(s) <= Len(t) /\ \A i \in 1..Len(s) : s[i] = t[i]

FailurePath == <<"new_ctx", "request_filter", "upstream_addr",
                 "upstream_request_filter", "forward", "fail_to_connect">>
SuccessPath == <<"new_ctx", "request_filter", "upstream_addr",
                 "upstream_request_filter", "forward", "upstream_latency",
                 "response_filter">>

\* C12: for each request the stages run in the order new_ctx, request_filter,
\* upstream_addr, upstream_request_filter, forward, then either
\* fail_to_connect or upstream_latency followed by response_filter; each
\* stage runs at most once per request and none runs after the pipeline has
\* produced its response.
C12_StagesInOrder ==
    /\ [](/\ req.pc # "idle" => Len(req.trace) >= 1
          /\ IsPrefix(Stages, FailurePath) \/ IsPrefix(Stages, SuccessPath))
    /\ [][(req.responses # <<>> /\ req'.n = req.n) =>
             req'.trace = req.trace]_vars

\* the second request went through every stage of the success path
C12_Witness ==
    /\ req.n = 2
    /\ req.pc = "done"
    /\ Stages = SuccessPath

\* C13: if request_filter returns an explicit response, the pipeline returns
\* exactly that response and invokes neither upstream_addr,
\* upstream_request_filter, the forward nor any later hook for the request.
C13_RequestFilterShortCircuits ==
    \A i \in Ran("request_filter") :
        req.trace[i].ret # <<>> =>
            /\ req.pc = "done"
            /\ req.responses = req.trace[i].ret
            /\ i = Len(req.trace)
            /\ \A s \in {"upstream_addr", "upstream_request_filter",
                         "forward", "fail_to_connect", "upstream_latency",
                         "response_filter"} : Ran(s) = {}

\* request_filter rejected the request with a response of its own
C13_Witness ==
    /\ req.pc = "done"
    /\ Len(req.trace) = 2
    /\ req.trace[2].stage = "request_filter"
    /\ req.trace[2].ret # <<>>
    /\ req.responses[1].status = 403

\* C14: if upstream_addr returns None the pipeline answers with status 503
\* and forwards nothing: upstream_request_filter, fail_to_connect,
\* upstream_latency and response_filter are not invoked for the request.
C14_NoUpstreamIs503 ==
    \A i \in Ran("upstream_addr") :
        req.trace[i].ret = <<>> =>
            /\ req.pc = "done"
            /\ Len(req.responses) = 1
            /\ req.responses[1].status = 503
            /\ \A s \in {"upstream_request_filter", "forward",
                         "fail_to_connect", "upstream_latency",
                         "response_filter"} : Ran(s) = {}

\* the load balancer had no healthy backend left and the request got a 503
C14_Witness ==
    /\ req.pc = "done"
    /\ Len(req.trace) = 3
    /\ req.trace[3].ret = <<>>
    /\ req.responses = <<StatusResponse(503)>>
    /\ lastNext.result = None
    /\ lastNext.calls = 2

\* C15: if the forward fails, fail_to_connect is invoked exactly once with
\* the address upstream_addr returned; the pipeline returns the hook's
\* response when it gives one and a 500 otherwise, and never invokes
\* upstream_latency or response_filter for the request.
C15_ForwardFailure ==
    \A i \in Ran("forward") :
        req.trace[i].ret = <<>> =>
            /\ Ran("upstream_latency") = {}
            /\ Ran("response_filter") = {}
            /\ Cardinality(Ran("fail_to_connect")) <= 1
            /\ req.pc # "done" =>
                  /\ req.pc = "fail_to_connect"
                  /\ req.responses = <<>>
            /\ req.pc = "done" =>
                  \E j \in Ran("fail_to_connect"), a \in Ran("upstream_addr") :
                     /\ req.trace[j].arg = req.trace[a].ret
                     /\ req.responses =
                           IF req.trace[j].ret # <<>>
                           THEN req.trace[j].ret
                           ELSE <<StatusResponse(500)>>

\* the forward went to a URI upstream_request_filter had rewritten and
\* failed, and the hook gave no response
C15_Witness ==
    /\ req.pc = "done"
    /\ Stages = FailurePath
    /\ req.trace[5].arg # req.trace[3].ret
    /\ req.trace[6].ret = <<>>
    /\ req.responses = <<StatusResponse(500)>>

\* C16: when the forward succeeds, upstream_latency is invoked exactly once
\* and before response_filter; an explicit response of response_filter is
\* returned verbatim, otherwise the upstream response with the filter's
\* header changes is returned.
C16_ForwardSuccess ==
    \A i \in Ran("forward") :
        req.trace[i].ret # <<>> =>
            /\ Ran("fail_to_connect") = {}
            /\ Cardinality(Ran("upstream_latency")) <= 1
            /\ \A f \in Ran("response_filter") :
                  \E l \in Ran("upstream_latency") : l < f
            /\ req.pc = "done" =>
                  /\ Cardinality(Ran("upstream_latency")) = 1
                  /\ \E f \in Ran("response_filter") :
                        req.responses =
                           IF req.trace[f].ret # <<>>
                           THEN req.trace[f].ret
                           ELSE <<[status |-> req.trace[f].arg[1].status,
                                   headers |-> req.trace[f].arg[1].headers,
                                   body |-> req.trace[i].ret[1].body]>>

\* response_filter added a header to the upstream's response and let it pass
C16_Witness ==
    /\ req.pc = "done"
    /\ Stages = SuccessPath
    /\ req.trace[7].ret = <<>>
    /\ req.responses =
          <<[status |-> 200, headers |-> {"server", "via"},
             body |-> "upstream"]>>

\* C17: every request ends with exactly one response on every path,
\* provided each hook and the upstream call return; no path ends without a
\* response.
C17_ExactlyOneResponse ==
    /\ [](/\ req.pc = "done" => Len(req.responses) = 1
          /\ req.pc # "done" => req.responses = <<>>)
    /\ (req.pc \notin {"idle", "done"}) ~> (req.pc = "done")

\* a second request, whose forward failed, ended with the 500 response
C17_Witness ==
    /\ req.n = 2
    /\ req.pc = "done"
    /\ Ran("fail_to_connect") # {}
    /\ Len(req.responses) = 1
    /\ req.responses[1].status = 500

\* C18: processing a request, a forward failure and the fail_to_connect hook
\* included, and calling next() leave every health record unchanged; a
\* health record changes only inside run_health_check() with a HealthCheck
\* configured.
C18_OnlyHealthChecksChangeHealth ==
    [][/\ (req' # req \/ lastNext' # lastNext) => health' = health
       /\ health' # health =>
             /\ hcPc = "running"
             /\ health_check # NoCheck
             /\ probes' = probes + 1]_vars

\* a forward failed and fail_to_connect ran for an address next() had given,
\* while the only unhealthy record is the one a health check marked
C18_Witness ==
    /\ req.pc = "done"
    /\ Ran("fail_to_connect") # {}
    /\ lastNext.result = 0
    /\ req.upstream_addr_clone = <<Uri("1.0.0.1")>>
    /\ health[HashKey(backends[1])].healthy
    /\ ~health[HashKey(backends[2])].healthy

(***************************************************************************)
(* The background health-check loop (background.rs)                        *)
(*                                                                         *)
(* bgPc is "notStarted", "loop" (at the head of the loop), "checking"      *)
(* (awaiting run_health_check), "sleeping" (awaiting sleep_until) or       *)
(* "done".  Instants and durations are whole minutes.  bgLog lists the     *)
(* run_health_check calls ("check") and the sleep_until calls ("sleep")    *)
(* the loop made.                                                          *)
(***************************************************************************)
\* const NEVER: Duration = Duration::from_secs(u32::MAX as u64), which is
\* 4294967295 seconds: 71582788 minutes
NEVER == 71582788

\* a health_check_interval, in minutes
Interval == 2

\* self.health_check_interval.unwrap_or(NEVER)
IntervalOrNever ==
    IF health_check_interval = <<>> THEN NEVER ELSE health_check_interval[1]

\* every variable of Backends and LoadBalancer
lbVars == <<ctorVars, backends, kind, weighted, current, health_check,
            health, hcPc, hcIdx, runLog, prevLog, nRuns, probes, lastNext,
            queried, returned, obsLog, everFailed>>

\* a start that schedules the first check one interval ahead
StartDeferred ==
    /\ bgPc = "notStarted"
    /\ bgPc' = "loop"
    /\ now' = 0
    /\ next_health_check' = now' + 1
    /\ UNCHANGED <<lbVars, taskVars, req, health_check_interval, shutdown,
                   signalled, bgLog>>

\* start() is entered: `now = Instant::now(); next_health_check = now`
Start ==
    /\ bgPc = "notStarted"
    /\ bgPc' = "loop"
    /\ now' = 0
    /\ next_health_check' = now'
    /\ UNCHANGED <<lbVars, taskVars, req, health_check_interval, shutdown,
                   signalled, bgLog>>

\* the head of the loop testing shutdown only when no check is due
LoopHeadChecksFirst ==
    /\ bgPc = "loop"
    /\ IF next_health_check <= now
       THEN /\ RunHealthCheckBegin
            /\ bgPc' = "checking"
            /\ bgLog' = Append(bgLog, "check")
       ELSE /\ IF shutdown \/ health_check_interval = <<>>
               THEN bgPc' = "done" /\ bgLog' = bgLog
               ELSE bgPc' = "sleeping" /\ bgLog' = Append(bgLog, "sleep")
            /\ UNCHANGED lbVars
    /\ UNCHANGED <<taskVars, req, health_check_interval, shutdown, signalled,
                   now,
                   next_health_check>>

\* the head of the loop once a shutdown has been seen never leaving the loop
LoopHeadNeverExits ==
    /\ bgPc = "loop"
    /\ IF shutdown
       THEN /\ bgPc' = "sleeping"
            /\ UNCHANGED <<lbVars, bgLog>>
       ELSE IF next_health_check <= now
            THEN /\ RunHealthCheckBegin
                 /\ bgPc' = "checking"
                 /\ bgLog' = Append(bgLog, "check")
            ELSE /\ IF health_check_interval = <<>>
                    THEN bgPc' = "done" /\ bgLog' = bgLog
                    ELSE bgPc' = "sleeping" /\ bgLog' = Append(bgLog, "sleep")
                 /\ UNCHANGED lbVars
    /\ UNCHANGED <<taskVars, req, health_check_interval, shutdown, signalled,
                   now,
                   next_health_check>>

\* the head of the loop up to the next await: the shutdown test, then either
\* the call of run_health_check or, no check being due, the interval test
\* and the call of sleep_until
LoopHead ==
    /\ bgPc = "loop"
    /\ IF shutdown
       THEN /\ bgPc' = "done"
            /\ UNCHANGED <<lbVars, bgLog>>
       ELSE IF next_health_check <= now
            THEN /\ RunHealthCheckBegin
                 /\ bgPc' = "checking"
                 /\ bgLog' = Append(bgLog, "check")
            ELSE /\ IF health_check_interval = <<>>
                    THEN bgPc' = "done" /\ bgLog' = bgLog
                    ELSE bgPc' = "sleeping" /\ bgLog' = Append(bgLog, "sleep")
                 /\ UNCHANGED lbVars
    /\ UNCHANGED <<taskVars, req, health_check_interval, shutdown, signalled,
                   now,
                   next_health_check>>

\* the loop going to sleep after its check whatever the interval
AfterCheckAlwaysSleeps ==
    /\ bgPc = "checking"
    /\ hcPc = "idle"
    /\ next_health_check' = now + IntervalOrNever
    /\ bgPc' = "sleeping"
    /\ bgLog' = Append(bgLog, "sleep")
    /\ UNCHANGED <<lbVars, taskVars, req, health_check_interval, shutdown,
                   signalled, now>>

\* run_health_check has returned: the next check is scheduled, then the loop
\* ends if no interval is configured and calls sleep_until otherwise
AfterCheck ==
    /\ bgPc = "checking"
    /\ hcPc = "idle"
    /\ next_health_check' = now + IntervalOrNever
    /\ IF health_check_interval = <<>>
       THEN bgPc' = "done" /\ bgLog' = bgLog
       ELSE bgPc' = "sleeping" /\ bgLog' = Append(bgLog, "sleep")
    /\ UNCHANGED <<lbVars, taskVars, req, health_check_interval, shutdown,
                   signalled, now>>

\* a sleep that ends before its deadline
WakeEarly ==
    /\ bgPc = "sleeping"
    /\ now' = next_health_check - 1
    /\ bgPc' = "loop"
    /\ UNCHANGED <<lbVars, taskVars, req, health_check_interval, shutdown,
                   signalled,
                   next_health_check, bgLog>>

\* sleep_until(next_health_check) returns, at the deadline or late, and
\* `now = Instant::now()`
Wake ==
    /\ bgPc = "sleeping"
    /\ \E late \in 0..MaxLate : now' = next_health_check + late
    /\ bgPc' = "loop"
    /\ UNCHANGED <<lbVars, taskVars, req, health_check_interval, shutdown,
                   signalled,
                   next_health_check, bgLog>>

\* the owner of the watch channel sends `true`
SignalShutdown ==
    /\ ~shutdown
    /\ shutdown' = TRUE
    /\ signalled' = <<[pc |-> bgPc, log |-> bgLog, health |-> health]>>
    /\ UNCHANGED <<lbVars, taskVars, req, health_check_interval, bgPc, now,
                   next_health_check, bgLog>>

\* a LoadBalancer over two backends, with or without a HealthCheck and an
\* interval, whose background loop has not been started yet
InitBackground ==
    /\ backends = <<Backend("1.0.0.1"), Backend("1.0.0.2")>>
    /\ kind = "RoundRobin"
    /\ weighted = <<>>
    /\ current = 0
    /\ health_check \in {NoCheck, <<[fail |-> 1, ok |-> 1]>>}
    /\ health = NewHealth(backends)
    /\ hcPc = "idle"
    /\ hcIdx = 0
    /\ runLog = <<>>
    /\ prevLog = <<>>
    /\ nRuns = 0
    /\ probes = 0
    /\ lastNext = IdleLastNext
    /\ queried = <<>>
    /\ returned = <<>>
    /\ obsLog = <<>>
    /\ everFailed = FALSE
    /\ ViaNew
    /\ NoTasks
    /\ req = IdleReq
    /\ health_check_interval \in {<<>>, <<Interval>>}
    /\ shutdown = FALSE
    /\ signalled = <<>>
    /\ bgPc = "notStarted"
    /\ now = 0
    /\ next_health_check = 0
    /\ bgLog = <<>>

\* one step of the task that runs start()
LoopStep ==
    \/ Start
    \/ LoopHead
    \/ \E ok \in BOOLEAN : CheckAndReport(ok)
    \/ AfterCheck
    \/ Wake

NextBackground ==
    \/ LoopStep
    \/ SignalShutdown

SpecBackground == InitBackground /\ [][NextBackground]_vars

\* the runtime polls the task, probes return and sleeps end
FairSpecBackground == SpecBackground /\ WF_vars(LoopStep)

\* C19 as stated: once started, the background loop always performs a
\* run_health_check(), and performs it before any sleep.
C19_AlwaysChecksFirst ==
    /\ bgPc = "done" => \E i \in 1..Len(bgLog) : bgLog[i] = "check"
    /\ bgLog # <<>> => bgLog[1] = "check"

\* C19 amended: once started, the loop first tests the shutdown signal; if
\* it is already signaled the loop ends without any run_health_check(),
\* otherwise it calls run_health_check() at once, before any sleep.
C19_ChecksFirstUnlessShutDown ==
    /\ [](/\ (bgPc = "done" /\ bgLog = <<>>) => shutdown
          /\ bgLog # <<>> => bgLog[1] = "check")
    /\ [][(bgPc = "loop" /\ bgLog = <<>> /\ bgPc' # "loop") =>
             IF shutdown
             THEN bgPc' = "done" /\ bgLog' = <<>>
             ELSE bgPc' = "checking" /\ bgLog' = <<"check">>]_vars

\* the loop checked, both probes being made, and only then slept
C19_Witness ==
    /\ Len(bgLog) >= 2
    /\ bgLog[1] = "check"
    /\ bgLog[2] = "sleep"
    /\ probes >= 2

\* C20 as stated: when no interval is configured, a started loop performs
\* exactly one run_health_check() and then terminates without sleeping.
C20_OneCheckThenDone ==
    health_check_interval = <<>> =>
        /\ bgPc # "sleeping"
        /\ \A i \in 1..Len(bgLog) : bgLog[i] = "check"
        /\ Len(bgLog) <= 1
        /\ bgPc = "done" => bgLog = <<"check">>

\* C20 amended: when no interval is configured, a started loop performs
\* exactly one run_health_check() and then terminates without sleeping,
\* unless shutdown is already signaled at its first test, in which case it
\* terminates without any check.
C20_OneCheckThenDoneUnlessShutDown ==
    /\ [](health_check_interval = <<>> =>
            /\ bgPc # "sleeping"
            /\ \A i \in 1..Len(bgLog) : bgLog[i] = "check"
            /\ Len(bgLog) <= 1
            /\ bgPc = "loop" => bgLog = <<>>
            /\ bgPc = "checking" => bgLog = <<"check">>
            /\ bgPc = "done" =>
                  \/ bgLog = <<"check">>
                  \/ bgLog = <<>> /\ shutdown)
    /\ (health_check_interval = <<>> /\ bgPc # "notStarted") ~>
          (bgPc = "done")

\* without an interval the loop made its one check, both probes included,
\* and ended although shutdown was never signaled
C20_Witness ==
    /\ health_check_interval = <<>>
    /\ bgPc = "done"
    /\ bgLog = <<"check">>
    /\ probes = 2
    /\ ~shutdown

\* the number of run_health_check calls in a log of the loop
Checks(log) == Cardinality({i \in 1..Len(log) : log[i] = "check"})

\* the number of sleep_until calls in a log of the loop
Sleeps(log) == Cardinality({i \in 1..Len(log) : log[i] = "sleep"})

\* C21: with an interval configured, if shutdown has been signaled by the
\* time the loop wakes from a sleep, the loop exits without starting another
\* run_health_check(); a shutdown signaled right after the first check yields
\* exactly one check in total, and the health records stay as that last
\* check left them.
C21_ShutdownDuringSleep ==
    /\ []((/\ health_check_interval # <<>>
           /\ signalled # <<>>
           /\ signalled[1].pc = "sleeping") =>
             /\ bgPc \in {"sleeping", "loop", "done"}
             /\ bgLog = signalled[1].log
             /\ health = signalled[1].health
             /\ signalled[1].log = <<"check", "sleep">> => Checks(bgLog) = 1)
    /\ [][(bgPc = "loop" /\ shutdown /\ bgPc' # "loop") =>
             /\ bgPc' = "done"
             /\ nRuns' = nRuns
             /\ hcPc' = "idle"]_vars

\* shutdown came during the sleep after a first check in which a probe
\* failed; the loop has ended and the record is still unhealthy
C21_Witness ==
    /\ health_check_interval # <<>>
    /\ signalled # <<>>
    /\ signalled[1].pc = "sleeping"
    /\ signalled[1].log = <<"check", "sleep">>
    /\ bgPc = "done"
    /\ nRuns = 1
    /\ ~health[HashKey(backends[2])].healthy

\* C22: after shutdown is signaled the loop eventually terminates: it exits
\* at its first shutdown test following the signal, which comes after at
\* most one more run_health_check() and one more sleep, assuming probes
\* return and the timer fires.
C22_TerminatesAfterShutdown ==
    /\ [](signalled # <<>> =>
            /\ Checks(bgLog) - Checks(signalled[1].log) <= 1
            /\ Sleeps(bgLog) - Sleeps(signalled[1].log) <= 1)
    /\ [][(bgPc = "loop" /\ shutdown /\ vars' # vars) => bgPc' = "done"]_vars
    /\ (shutdown /\ bgPc # "notStarted") ~> (bgPc = "done")

\* shutdown came while the second check was running; the loop finished the
\* check, slept once more and ended
C22_Witness ==
    /\ signalled # <<>>
    /\ signalled[1].pc = "checking"
    /\ signalled[1].log = <<"check", "sleep", "check">>
    /\ bgLog = <<"check", "sleep", "check", "sleep">>
    /\ bgPc = "done"

\* C23: with an interval configured and shutdown never signaled, the loop
\* never terminates and strictly alternates check, sleep, check, sleep, with
\* exactly one run_health_check() per wake-up, so checks keep recurring (up
\* to the MaxRuns calls a behaviour of the model makes).
C23_AlternatesForever ==
    /\ [](health_check_interval # <<>> =>
            /\ ~shutdown => bgPc # "done"
            /\ \A i \in 1..Len(bgLog) :
                  bgLog[i] = IF i % 2 = 1 THEN "check" ELSE "sleep")
    /\ [][(/\ health_check_interval # <<>>
           /\ bgPc = "loop"
           /\ ~shutdown
           /\ bgPc' # "loop") =>
             /\ bgPc' = "checking"
             /\ nRuns' = nRuns + 1
             /\ bgLog' = Append(bgLog, "check")]_vars
    /\ <>(health_check_interval = <<>> \/ shutdown \/ nRuns = MaxRuns)

\* without a shutdown the loop is in its second check after one sleep
C23_Witness ==
    /\ health_check_interval # <<>>
    /\ ~shutdown
    /\ bgLog = <<"check", "sleep", "check">>
    /\ bgPc = "checking"
    /\ now >= Interval

(***************************************************************************)
(* Health::observe_health and Health::healthy called concurrently          *)
(*                                                                         *)
(* observe_health is `self.0.load()`, a computation on the loaded record   *)
(* and at most one `self.0.store(..)`: each task takes these two steps of  *)
(* its own, the ArcSwap load and store being atomic.                       *)
(***************************************************************************)
Tasks == 1..MaxTasks

\* a task outside observe_health
IdleObserver == [pc |-> "idle", loaded |-> <<>>, obs |-> FALSE, thr |-> 0]

\* calls of observe_health begun and not yet returned
InFlight == Cardinality({t \in Tasks : tasks[t].pc # "idle"})

\* `let health = self.0.load()` of observe_health(obs, thr) in task t
LoadHealth(t, obs, thr) ==
    /\ tasks[t].pc = "idle"
    /\ Len(obsLog) + InFlight < MaxObs
    /\ tasks' = [tasks EXCEPT ![t] = [pc |-> "loaded",
                                      loaded |-> <<TheRecord>>,
                                      obs |-> obs,
                                      thr |-> thr]]
    /\ UNCHANGED <<ctorVars, backends, kind, weighted, current, health_check,
                   health,
                   hcPc, hcIdx, runLog, prevLog, nRuns, probes, lastNext,
                   queried, returned, obsLog, everFailed, serviceVars, stored,
                   seen>>

\* a store in two halves, the flag being written and the counter still the
\* incremented one a reader can see
StoreHealthTorn(t) ==
    /\ tasks[t].pc = "loaded"
    /\ LET before == tasks[t].loaded[1]
           out == ObserveHealth(before, tasks[t].obs, tasks[t].thr)
       IN /\ IF out.rec # before
             THEN /\ health' = [health EXCEPT ![HashKey(TheBackend)] =
                                   [healthy |-> out.rec.healthy,
                                    health_counter |->
                                        before.health_counter + 1]]
                  /\ stored' = stored \cup {out.rec}
             ELSE UNCHANGED <<health, stored>>
          /\ obsLog' = Append(obsLog, [obs |-> tasks[t].obs,
                                       thr |-> tasks[t].thr,
                                       before |-> before,
                                       flipped |-> out.flipped])
    /\ tasks' = [tasks EXCEPT ![t] = IdleObserver]
    /\ UNCHANGED <<ctorVars, backends, kind, weighted, current, health_check,
                   hcPc,
                   hcIdx, runLog, prevLog, nRuns, probes, lastNext, queried,
                   returned, everFailed, serviceVars, seen>>

\* the rest of observe_health in task t: the new record is computed from the
\* loaded one and, if it differs, stored whole with `self.0.store(Arc::new(
\* new_health))`
StoreHealth(t) ==
    /\ tasks[t].pc = "loaded"
    /\ LET before == tasks[t].loaded[1]
           out == ObserveHealth(before, tasks[t].obs, tasks[t].thr)
       IN /\ IF out.rec # before
             THEN /\ health' = [health EXCEPT ![HashKey(TheBackend)] = out.rec]
                  /\ stored' = stored \cup {out.rec}
             ELSE UNCHANGED <<health, stored>>
          /\ obsLog' = Append(obsLog, [obs |-> tasks[t].obs,
                                       thr |-> tasks[t].thr,
                                       before |-> before,
                                       flipped |-> out.flipped])
    /\ tasks' = [tasks EXCEPT ![t] = IdleObserver]
    /\ UNCHANGED <<ctorVars, backends, kind, weighted, current, health_check,
                   hcPc,
                   hcIdx, runLog, prevLog, nRuns, probes, lastNext, queried,
                   returned, everFailed, serviceVars, seen>>

\* a reader's `self.0.load()`, as in Health::healthy
ReadHealth ==
    /\ seen' = <<TheRecord>>
    /\ UNCHANGED <<ctorVars, backends, kind, weighted, current, health_check,
                   health,
                   hcPc, hcIdx, runLog, prevLog, nRuns, probes, lastNext,
                   queried, returned, obsLog, everFailed, serviceVars, tasks,
                   stored>>

\* one Health::default() shared by MaxTasks writers and a reader
InitConcurrentHealth ==
    /\ backends = <<TheBackend>>
    /\ kind = "RoundRobin"
    /\ weighted = <<>>
    /\ current = 0
    /\ health_check = NoCheck
    /\ health = [k \in {HashKey(TheBackend)} |-> HealthDefault]
    /\ hcPc = "idle"
    /\ hcIdx = 0
    /\ runLog = <<>>
    /\ prevLog = <<>>
    /\ nRuns = 0
    /\ probes = 0
    /\ lastNext = IdleLastNext
    /\ queried = <<>>
    /\ returned = <<>>
    /\ obsLog = <<>>
    /\ everFailed = FALSE
    /\ ViaNew
    /\ NoServices
    /\ tasks = [t \in Tasks |-> IdleObserver]
    /\ stored = {HealthDefault}
    /\ seen = <<>>

NextConcurrentHealth ==
    \/ \E t \in Tasks, obs \in BOOLEAN, thr \in 1..MaxThreshold :
          LoadHealth(t, obs, thr)
    \/ \E t \in Tasks : StoreHealth(t)
    \/ ReadHealth

SpecConcurrentHealth == InitConcurrentHealth /\ [][NextConcurrentHealth]_vars

\* C24: a reader that runs concurrently with observe_health sees the complete
\* record from before an update or the complete record after it: every
\* observable (healthy, counter) pair is the initial record or one written
\* whole by an observe_health call, never a flag of one update with a counter
\* of another.
C24_ReaderSeesWholeRecords ==
    /\ TheRecord \in stored
    /\ seen # <<>> => seen[1] \in stored
    /\ \A r \in stored :
          \/ r = HealthDefault
          \/ \E i \in 1..Len(obsLog) :
                r = ObserveHealth(obsLog[i].before, obsLog[i].obs,
                                  obsLog[i].thr).rec

\* the reader loaded the record while another observe_health was between its
\* load and its store, two updates having been stored before
C24_Witness ==
    /\ seen = <<[healthy |-> FALSE, health_counter |-> 0]>>
    /\ Len(obsLog) >= 2
    /\ obsLog[Len(obsLog)].flipped
    /\ \E t \in Tasks : tasks[t].pc = "loaded"

(***************************************************************************)
(* RoundRobin::get_next called concurrently                                *)
(*                                                                         *)
(* get_next is `self.current.fetch_add(1, Ordering::Relaxed)`, one atomic  *)
(* read-modify-write, followed by the indexing of the immutable Vec with   *)
(* the value fetched.                                                      *)
(***************************************************************************)
\* a task outside get_next
IdleCaller == [pc |-> "idle", idx |-> 0]

\* the tasks between the fetch_add and the return of get_next
Fetched == {t \in Tasks : tasks[t].pc = "fetched"}

\* a fetch_add whose increment is lost when another call is under way
FetchAddRacy(t) ==
    /\ tasks[t].pc = "idle"
    /\ Len(backends) > 0
    /\ Len(returned) + Cardinality(Fetched) < MaxTaskCalls
    /\ tasks' = [tasks EXCEPT ![t] = [pc |-> "fetched", idx |-> current]]
    /\ current' = IF Fetched # {} THEN current ELSE current + 1
    /\ UNCHANGED <<ctorVars, backends, kind, weighted, health_check, health,
                   hcPc,
                   hcIdx, runLog, prevLog, nRuns, probes, lastNext, queried,
                   returned, obsLog, everFailed, serviceVars, stored, seen>>

\* `let idx = self.current.fetch_add(1, Ordering::Relaxed)` in task t, the
\* pool being non-empty
FetchAdd(t) ==
    /\ tasks[t].pc = "idle"
    /\ Len(backends) > 0
    /\ Len(returned) + Cardinality(Fetched) < MaxTaskCalls
    /\ tasks' = [tasks EXCEPT ![t] = [pc |-> "fetched", idx |-> current]]
    /\ current' = current + 1
    /\ UNCHANGED <<ctorVars, backends, kind, weighted, health_check, health,
                   hcPc,
                   hcIdx, runLog, prevLog, nRuns, probes, lastNext, queried,
                   returned, obsLog, everFailed, serviceVars, stored, seen>>

\* `Some(&self.backends[idx % self.backends.len()])` in task t
ReturnBackend(t) ==
    /\ tasks[t].pc = "fetched"
    /\ returned' = Append(returned, tasks[t].idx % Len(backends))
    /\ tasks' = [tasks EXCEPT ![t] = IdleCaller]
    /\ UNCHANGED <<ctorVars, backends, kind, weighted, current, health_check,
                   health,
                   hcPc, hcIdx, runLog, prevLog, nRuns, probes, lastNext,
                   queried, obsLog, everFailed, serviceVars, stored, seen>>

\* RoundRobin::build over a non-empty pool, shared by MaxTasks callers
InitConcurrentStrategy ==
    /\ backends \in {[i \in 1..n |-> Backend(AddrOf[i])] : n \in 1..MaxPool}
    /\ kind = "RoundRobin"
    /\ weighted = <<>>
    /\ current = 0
    /\ health_check = NoCheck
    /\ health = NewHealth(backends)
    /\ hcPc = "idle"
    /\ hcIdx = 0
    /\ runLog = <<>>
    /\ prevLog = <<>>
    /\ nRuns = 0
    /\ probes = 0
    /\ lastNext = IdleLastNext
    /\ queried = <<>>
    /\ returned = <<>>
    /\ obsLog = <<>>
    /\ everFailed = FALSE
    /\ ViaNew
    /\ NoServices
    /\ tasks = [t \in Tasks |-> IdleCaller]
    /\ stored = {}
    /\ seen = <<>>

NextConcurrentStrategy ==
    \/ \E t \in Tasks : FetchAdd(t)
    \/ \E t \in Tasks : ReturnBackend(t)

SpecConcurrentStrategy ==
    InitConcurrentStrategy /\ [][NextConcurrentStrategy]_vars

\* C25: when several tasks call RoundRobin.get_next concurrently, every call
\* obtains a distinct cursor value and no increment is lost: after k calls in
\* any interleaving the cursor equals k and the returned backends are exactly
\* backends[0 mod N], ..., backends[(k-1) mod N], one per call.
C25_NoLostIncrement ==
    /\ current = Len(returned) + Cardinality(Fetched)
    /\ \A t \in Fetched : tasks[t].idx < current
    /\ \A t, u \in Fetched : t # u => tasks[t].idx # tasks[u].idx
    /\ \A j \in 0..(Len(backends) - 1) :
          Count(j, returned) + Cardinality({t \in Fetched :
                                     tasks[t].idx % Len(backends) = j})
             = Cardinality({i \in 0..(current - 1) : i % Len(backends) = j})

\* two calls overlapped and returned in the order opposite to their
\* fetch_add, over a pool of three
C25_Witness ==
    /\ Len(backends) = 3
    /\ Len(returned) >= 4
    /\ returned[1] = 1
    /\ returned[2] = 0
    /\ Fetched = {}
    /\ current = Len(returned)

(***************************************************************************)
(* Different thresholds for the two directions                             *)
(***************************************************************************)
\* the probes of the last two runs, each with the key of the backend probed
ProbeLog ==
    [i \in 1..Len(prevLog) |->
        [key |-> HashKey(backends[i]), ok |-> prevLog[i]]]
    \o [i \in 1..Len(runLog) |->
        [key |-> HashKey(backends[i]), ok |-> runLog[i]]]

\* the answers of the probes of the backend of key k, oldest first
ProbesOf(k) ==
    LET own == SelectSeq(ProbeLog, LAMBDA e : e.key = k)
    IN [i \in 1..Len(own) |-> own[i].ok]

LastProbeSucceeded(k) ==
    LET h == ProbesOf(k) IN Len(h) >= 1 /\ h[Len(h)]

FailOneOkTwo == health_check = <<[fail |-> 1, ok |-> 2]>>

\* C26: with health_threshold(false) = 1 and health_threshold(true) = 2 a
\* failed probe leaves its backend unhealthy whatever it was, a successful
\* probe of an unhealthy backend makes it healthy exactly when the probe of
\* that backend before it succeeded too, no other record changes, and next()
\* returns only backends whose record is healthy.
C26_ThresholdPerDirection ==
    [][FailOneOkTwo =>
        /\ health' # health => (hcPc = "running" /\ probes' = probes + 1)
        /\ (hcPc = "running" /\ probes' = probes + 1) =>
              LET k == HashKey(backends[hcIdx + 1])
                  ok == runLog'[Len(runLog')]
              IN /\ \A j \in DOMAIN health \ {k} : health'[j] = health[j]
                 /\ ~ok => ~Healthy(health'[k])
                 /\ (ok /\ Healthy(health[k])) => Healthy(health'[k])
                 /\ (ok /\ ~Healthy(health[k])) =>
                       (Healthy(health'[k]) <=> LastProbeSucceeded(k))
        /\ lastNext'.tick # lastNext.tick =>
              LET r == lastNext'.result
              IN (r # None /\ r # Panic) =>
                    Healthy(health[HashKey(backends[r + 1])])]_vars

\* a backend failed a probe, then passed two in a row, and a next() called
\* after that returned it
C26_Witness ==
    /\ FailOneOkTwo
    /\ lastNext.result # None
    /\ lastNext.result # Panic
    /\ lastNext.calls >= 1
    /\ LET h == ProbesOf(HashKey(backends[lastNext.result + 1]))
       IN /\ Len(h) >= 3
          /\ ~h[Len(h) - 2]
          /\ h[Len(h) - 1]
          /\ h[Len(h)]

(***************************************************************************)
(* One run of the health check                                             *)
(***************************************************************************)
\* a step of the run in progress that probes a backend
ProbeStep == hcPc = "running" /\ probes' = probes + 1

\* what one failed observation makes of a record under the threshold thr
AfterFailure(rec, thr) ==
    IF rec.healthy
    THEN IF rec.health_counter + 1 >= thr
         THEN [healthy |-> FALSE, health_counter |-> 0]
         ELSE [healthy |-> TRUE,
               health_counter |-> rec.health_counter + 1]
    ELSE [healthy |-> FALSE, health_counter |-> 0]

\* C27: with a HealthCheck configured a run_health_check() probes the entries
\* of the pool one after the other in pool order, each exactly once: the
\* i-th probe of the run touches the record of backends[i] and no other, a
\* failed probe is recorded as one failed observation of that backend and
\* the run goes on to the next entry, and the run ends only after the last
\* entry was probed.
C27_RunProbesWholePool ==
    /\ [](health_check # NoCheck =>
            /\ Len(runLog) <= Len(backends)
            /\ hcPc = "running" => Len(runLog) < Len(backends)
            /\ (hcPc = "idle" /\ nRuns > 0) => Len(runLog) = Len(backends)
            /\ probes = IF nRuns = 0 THEN 0
                        ELSE (nRuns - 1) * Len(backends) + Len(runLog))
    /\ [][(health_check # NoCheck /\ ProbeStep) =>
            LET i == Len(runLog) + 1
                k == HashKey(backends[i])
                ok == runLog'[i]
            IN /\ Len(runLog') = i
               /\ SubSeq(runLog', 1, i - 1) = runLog
               /\ \A j \in DOMAIN health \ {k} : health'[j] = health[j]
               /\ ~ok => health'[k] = AfterFailure(health[k],
                                                   health_check[1].fail)
               /\ hcPc' = IF i < Len(backends) THEN "running" ELSE "idle"]_vars

\* a run over two distinct backends in which the first probe failed and the
\* second backend was probed all the same, and failed too
C27_Witness ==
    /\ health_check # NoCheck
    /\ Len(backends) = 2
    /\ HashKey(backends[1]) # HashKey(backends[2])
    /\ nRuns = 1
    /\ hcPc = "idle"
    /\ runLog = <<FALSE, FALSE>>
    /\ probes = 2
    /\ health_check[1].fail = 1 =>
          /\ ~Healthy(health[HashKey(backends[1])])
          /\ ~Healthy(health[HashKey(backends[2])])

(***************************************************************************)
(* Construction: LoadBalancer::new and LoadBalancer::try_from_vec          *)
(***************************************************************************)
MaxAddrs == 2   \* try_from_vec is given up to MaxAddrs addresses

\* an address as it is written: its scheme, authority and path, and whether
\* the text holds a character no URI may hold (a space)
Written(scheme, authority, path, illegal) ==
    [scheme |-> scheme, authority |-> authority, path |-> path,
     illegal |-> illegal]

\* the text of a written address
Text(a) ==
    (IF a.scheme = "" THEN "" ELSE a.scheme \o "://")
    \o a.authority \o a.path \o (IF a.illegal THEN " " ELSE "")

\* "1.0.0.1:80", "http://1.0.0.2", "http://1.0.0.2/", "/", and the texts
\* "", "1.0.0.1:80/", "http://" and "1.0.0.1:80 "
AddressTexts ==
    {Written("", "1.0.0.1:80", "", FALSE),
     Written("http", "1.0.0.2", "", FALSE),
     Written("http", "1.0.0.2", "/", FALSE),
     Written("", "", "/", FALSE),
     Written("", "", "", FALSE),
     Written("", "1.0.0.1:80", "/", FALSE),
     Written("http", "", "", FALSE),
     Written("", "1.0.0.1:80", "", TRUE)}

AddressLists == UNION {[1..n -> AddressTexts] : n \in 0..MaxAddrs}

\* addr.parse::<Uri>(): <<>> for an InvalidUri error, else <<the Uri>>.  The
\* text must be non-empty and hold URI characters only, a scheme must be
\* followed by an authority, and an authority without a scheme must be the
\* whole text.
ParseUri(a) ==
    IF \/ a.illegal
       \/ Text(a) = ""
       \/ a.scheme # "" /\ a.authority = ""
       \/ a.scheme = "" /\ a.authority # "" /\ a.path # ""
    THEN <<>>
    ELSE <<[scheme |-> a.scheme, authority |-> a.authority,
            path_and_query |-> a.path]>>

\* Uri::path: "/" for a Uri that has a scheme and an empty path
UriPath(uri) ==
    IF uri.path_and_query = "" /\ uri.scheme # "" THEN "/"
    ELSE uri.path_and_query

\* uri.to_string()
UriToString(uri) ==
    (IF uri.scheme = "" THEN "" ELSE uri.scheme \o "://")
    \o uri.authority \o UriPath(uri)

\* T::build(&backends) panics: only WeightedRandom::build can, on the unwrap
\* of WeightedAliasIndex::new
BuildPanics(k, bs) == k = "WeightedRandom" /\ AliasIndexError(WeightsOf(bs))

\* LoadBalancer::new from its call of T::build on
LoadBalancerNew(bs) ==
    /\ given' = bs
    /\ IF BuildPanics(kind, bs)
       THEN /\ built' = "panic"
            /\ UNCHANGED <<backends, weighted, health>>
       ELSE /\ built' = "ok"
            /\ backends' = bs
            /\ weighted' = Build(kind, bs)
            /\ health' = NewHealth(bs)

\* every variable the constructors leave alone
notBuilt == <<kind, current, health_check, hcPc, hcIdx, runLog, prevLog,
              nRuns, probes, lastNext, queried, returned, obsLog, everFailed,
              serviceVars, taskVars>>

\* a call of LoadBalancer::<T>::new(bs)
New(bs) ==
    /\ built = "none"
    /\ LoadBalancerNew(bs)
    /\ UNCHANGED <<addresses, notBuilt>>

\* a call of LoadBalancer::<T>::try_from_vec(addrs): collecting into a Result
\* stops at the first address that fails to parse and gives its error
TryFromVec(addrs) ==
    /\ built = "none"
    /\ addresses' = <<addrs>>
    /\ IF \E i \in 1..Len(addrs) : ParseUri(addrs[i]) = <<>>
       THEN /\ built' = "err"
            /\ UNCHANGED <<given, backends, weighted, health>>
       ELSE LoadBalancerNew([i \in 1..Len(addrs) |->
                                Backend(UriToString(ParseUri(addrs[i])[1]))])
    /\ UNCHANGED notBuilt

\* strategy.get_next() on the load balancer that was built; only the last
\* result is kept
BuiltGetNext ==
    /\ built = "ok"
    /\ current < MaxCursor
    /\ \E rnd \in (IF kind = "WeightedRandom" THEN WeightedDraws(backends)
                   ELSE 0..(Len(backends) - 1)) \cup
                  (IF Len(backends) = 0 THEN {0} ELSE {}) :
          LET out == GetNext(kind, backends, weighted, current, rnd)
          IN /\ current' = out.current
             /\ returned' = <<out.ret>>
    /\ UNCHANGED <<ctorVars, backends, kind, weighted, health_check, health,
                   hcPc, hcIdx, runLog, prevLog, nRuns, probes, lastNext,
                   queried, obsLog, everFailed, serviceVars, taskVars>>

\* LoadBalancer::next() on the load balancer that was built
BuiltNext ==
    /\ built = "ok"
    /\ Next

Kinds == {"RoundRobin", "Random", "WeightedRoundRobin", "WeightedRandom"}

\* no constructor has been called yet
InitConstruct ==
    /\ backends = <<>>
    /\ kind \in Kinds
    /\ weighted = <<>>
    /\ current = 0
    /\ health_check = NoCheck
    /\ health = NewHealth(<<>>)
    /\ hcPc = "idle"
    /\ hcIdx = 0
    /\ runLog = <<>>
    /\ prevLog = <<>>
    /\ nRuns = 0
    /\ probes = 0
    /\ lastNext = IdleLastNext
    /\ queried = <<>>
    /\ returned = <<>>
    /\ obsLog = <<>>
    /\ everFailed = FALSE
    /\ addresses = <<>>
    /\ given = <<>>
    /\ built = "none"
    /\ NoTasks
    /\ NoServices

NextConstruct ==
    \/ \E bs \in Pools : New(bs)
    \/ \E addrs \in AddressLists : TryFromVec(addrs)
    \/ BuiltGetNext
    \/ BuiltNext

SpecConstruct == InitConstruct /\ [][NextConstruct]_vars

\* the pool try_from_vec is to build from addresses that all parse
PoolOf(addrs) ==
    [i \in 1..Len(addrs) |->
        [addr |-> UriToString(ParseUri(addrs[i])[1]), weight |-> 100]]

\* C28: try_from_vec is all-or-nothing: when an address fails to parse it
\* returns the error and no load balancer exists; otherwise it returns a
\* load balancer whose pool holds one backend per address, in input order,
\* each of weight 100.
C28_AllOrNothing ==
    addresses # <<>> =>
        LET addrs == addresses[1] IN
        IF \E i \in 1..Len(addrs) : ParseUri(addrs[i]) = <<>>
        THEN /\ built = "err"
             /\ backends = <<>>
             /\ health = NewHealth(<<>>)
        ELSE /\ built = "ok"
             /\ backends = PoolOf(addrs)
             /\ DOMAIN health = {HashKey(b) : b \in {backends[i] :
                                                i \in 1..Len(backends)}}

\* C29: construction is total for the four strategies: build returns for
\* every backend list, the empty one and one whose weights are all 0
\* included; on an empty pool get_next and next() return None, and on a
\* non-empty pool get_next returns a member of the pool.
C29_BuildIsTotal ==
    /\ built # "panic"
    /\ (built = "ok" /\ Len(backends) = 0) =>
          /\ returned \in {<<>>, <<None>>}
          /\ lastNext.result = None
    /\ (built = "ok" /\ Len(backends) > 0 /\ returned # <<>>) =>
          returned[1] \in 0..(Len(backends) - 1)

\* C30: for a WeightedRoundRobin built over a non-empty pool the table of
\* indices is non-empty, every entry of it is an index of the pool, and
\* get_next returns a backend of the pool on every call, without a division
\* by zero, also when a backend has weight 0.
C30_TableNeverEmpty ==
    (kind = "WeightedRoundRobin" /\ Len(backends) > 0) =>
        /\ Len(weighted) > 0
        /\ \A i \in 1..Len(weighted) : weighted[i] \in 0..(Len(backends) - 1)
        /\ \A k \in 1..Len(returned) :
              returned[k] \in 0..(Len(backends) - 1)

(***************************************************************************)
(* A WeightedRoundRobin LoadBalancer under health checks                   *)
(***************************************************************************)
\* LoadBalancer::<WeightedRoundRobin>::new over a weighted pool, followed by
\* set_health_check with a check of threshold 1
InitWeighted ==
    /\ backends \in Pools
    /\ kind = "WeightedRoundRobin"
    /\ weighted = Build(kind, backends)
    /\ current = 0
    /\ health_check = <<[fail |-> 1, ok |-> 1]>>
    /\ health = NewHealth(backends)
    /\ hcPc = "idle"
    /\ hcIdx = 0
    /\ runLog = <<>>
    /\ prevLog = <<>>
    /\ nRuns = 0
    /\ probes = 0
    /\ lastNext = IdleLastNext
    /\ queried = <<>>
    /\ returned = <<>>
    /\ obsLog = <<>>
    /\ everFailed = FALSE
    /\ ViaNew
    /\ NoTasks
    /\ NoServices

NextWeighted ==
    \/ RunHealthCheck
    \/ \E ok \in BOOLEAN : CheckAndReport(ok)
    \/ Next

SpecWeighted == InitWeighted /\ [][NextWeighted]_vars

\* the backends that occur in the precomputed sequence
InTable == {weighted[i] : i \in 1..Len(weighted)}

\* C31: with WeightedRoundRobin next() returns a healthy backend whenever a
\* backend that occurs in the precomputed sequence is healthy, and returns
\* None only if every backend of the sequence is unhealthy.
C31_FindsHealthyInTable ==
    [][(lastNext'.tick # lastNext.tick /\ kind = "WeightedRoundRobin") =>
          LET r == lastNext'.result
              live == {i \in InTable : IsHealthy(backends[i + 1])}
          IN /\ live # {} => r \in live
             /\ r = None => live = {}]_vars

(***************************************************************************)
(* LoadBalancer::next called by concurrent tasks, RoundRobin               *)
(***************************************************************************)
\* a task that is not inside next()
IdleNext == [pc |-> "idle", left |-> 0, idx |-> 0]

\* task t calls next(): select_with(len as u16) enters its loop
NextBegin(t) ==
    /\ tasks[t].pc = "idle"
    /\ tasks' = [tasks EXCEPT ![t] = [pc |-> "loop",
                                      left |-> Len(backends) % U16,
                                      idx |-> 0]]
    /\ UNCHANGED <<ctorVars, backends, kind, weighted, current, health_check,
                   health, hcPc, hcIdx, runLog, prevLog, nRuns, probes,
                   lastNext, queried, returned, obsLog, everFailed,
                   serviceVars, stored, seen>>

\* the loop of select_with in task t: it ends with None when the iterations
\* are used up, else strategy.get_next() takes the cursor with fetch_add
NextFetch(t) ==
    /\ tasks[t].pc = "loop"
    /\ IF tasks[t].left = 0 \/ Len(backends) = 0
       THEN /\ returned' = <<None>>
            /\ tasks' = [tasks EXCEPT ![t] = IdleNext]
            /\ UNCHANGED current
       ELSE /\ current < MaxTaskCalls
            /\ tasks' = [tasks EXCEPT ![t] = [pc |-> "fetched",
                                              left |-> @.left,
                                              idx |-> current]]
            /\ current' = current + 1
            /\ UNCHANGED returned
    /\ UNCHANGED <<ctorVars, backends, kind, weighted, health_check, health,
                   hcPc, hcIdx, runLog, prevLog, nRuns, probes, lastNext,
                   queried, obsLog, everFailed, serviceVars, stored, seen>>

\* task t tests the candidate with is_healthy: it returns a healthy one and
\* goes round the loop again for an unhealthy one
NextTest(t) ==
    /\ tasks[t].pc = "fetched"
    /\ LET i == tasks[t].idx % Len(backends) IN
       IF IsHealthy(backends[i + 1])
       THEN /\ returned' = <<i>>
            /\ tasks' = [tasks EXCEPT ![t] = IdleNext]
       ELSE /\ tasks' = [tasks EXCEPT ![t] = [pc |-> "loop",
                                              left |-> @.left - 1,
                                              idx |-> 0]]
            /\ UNCHANGED returned
    /\ UNCHANGED <<ctorVars, backends, kind, weighted, current, health_check,
                   health, hcPc, hcIdx, runLog, prevLog, nRuns, probes,
                   lastNext, queried, obsLog, everFailed, serviceVars,
                   stored, seen>>

\* a RoundRobin LoadBalancer after one run_health_check() with threshold 1,
\* whose probe results flags gives; no further run is made
InitConcurrentNext ==
    /\ backends \in {[i \in 1..n |-> Backend(AddrOf[i])] : n \in 1..MaxPool}
    /\ kind = "RoundRobin"
    /\ weighted = <<>>
    /\ current = 0
    /\ health_check = <<[fail |-> 1, ok |-> 1]>>
    /\ \E flags \in [1..Len(backends) -> BOOLEAN] :
          /\ health = [k \in {HashKey(backends[i]) : i \in 1..Len(backends)} |->
                          [healthy |-> \A i \in 1..Len(backends) :
                                          HashKey(backends[i]) = k => flags[i],
                           health_counter |-> 0]]
          /\ runLog = flags
          /\ everFailed = (\E i \in 1..Len(backends) : ~flags[i])
    /\ hcPc = "idle"
    /\ hcIdx = Len(backends)
    /\ prevLog = <<>>
    /\ nRuns = 1
    /\ probes = Len(backends)
    /\ lastNext = IdleLastNext
    /\ queried = <<>>
    /\ returned = <<>>
    /\ obsLog = <<>>
    /\ ViaNew
    /\ NoServices
    /\ tasks = [t \in Tasks |-> IdleNext]
    /\ stored = {}
    /\ seen = <<>>

NextConcurrentNext ==
    \/ \E t \in Tasks : NextBegin(t)
    \/ \E t \in Tasks : NextFetch(t)
    \/ \E t \in Tasks : NextTest(t)

SpecConcurrentNext == InitConcurrentNext /\ [][NextConcurrentNext]_vars

SomeHealthy == \E i \in 1..Len(backends) : IsHealthy(backends[i])

\* C32: with RoundRobin and the health state held fixed, every next() call
\* returns a healthy backend whenever the pool has one, also when several
\* tasks call next() concurrently.
C32_ConcurrentNextFindsHealthy ==
    [][\A t \in Tasks :
          (tasks[t].pc # "idle" /\ tasks'[t].pc = "idle" /\ SomeHealthy) =>
              /\ returned'[1] # None
              /\ IsHealthy(backends[returned'[1] + 1])]_vars

\* the record the i-th completed observe_health call leaves
LeftBy(i) ==
    ObserveHealth(obsLog[i].before, obsLog[i].obs, obsLog[i].thr).rec

\* C33: when observe_health calls of overlapping run_health_check()
\* invocations meet on a record no observation is lost: each call is applied
\* to the record the previous one left, so T observations of unhealthy in a
\* row flip a healthy record whose threshold is T.
C33_NoLostObservation ==
    /\ \A i \in 1..(Len(obsLog) - 1) : obsLog[i + 1].before = LeftBy(i)
    /\ \A T \in 1..MaxThreshold :
          (/\ Len(obsLog) = T
           /\ \A i \in 1..T : ~obsLog[i].obs /\ obsLog[i].thr = T) =>
              ~TheRecord.healthy

\* the probes the current (or last) run has made of the record of key k
ObservationsOf(k) ==
    Cardinality({i \in 1..Len(runLog) : HashKey(backends[i]) = k})

\* C34: a run_health_check() applies one observation to each health record,
\* so with flip threshold T no backend's health flips in fewer than T runs,
\* also when the pool lists the same address and weight more than once.
C34_OneObservationPerRun ==
    health_check # NoCheck =>
        \A k \in DOMAIN health :
            /\ ObservationsOf(k) <= 1
            /\ (hcPc = "idle" /\ nRuns > 0) => ObservationsOf(k) = 1
            /\ ~Healthy(health[k]) => nRuns >= health_check[1].fail

\* the first healthy backend at or after cursor position c, going round the
\* pool, and the cursor once it has been returned; the pool has a healthy
\* backend
NextHealthyFrom(c) ==
    LET N == Len(backends)
        d == CHOOSE d \in 0..(N - 1) :
                /\ IsHealthy(backends[((c + d) % N) + 1])
                /\ \A e \in 0..(d - 1) :
                      ~IsHealthy(backends[((c + e) % N) + 1])
    IN [ret |-> (c + d) % N, current |-> c + d + 1, calls |-> d + 1]

\* C35: with RoundRobin, a single caller and the health state held fixed
\* with a healthy backend in the pool, next() returns the first healthy
\* backend at or after the cursor in pool order, so successive calls return
\* the healthy backends in pool order, each once per cycle, and every
\* candidate skipped as unhealthy consumes one cursor position.
C35_HealthyInPoolOrder ==
    [][(/\ lastNext'.tick # lastNext.tick
        /\ kind = "RoundRobin"
        /\ SomeHealthy) =>
          LET out == NextHealthyFrom(current)
          IN /\ lastNext'.result = out.ret
             /\ lastNext'.calls = out.calls
             /\ current' = out.current]_vars

(***************************************************************************)
(* HttpHealthCheck over the backends try_from_vec builds                   *)
(***************************************************************************)
\* the parts of the text addr, one of the texts try_from_vec was given or
\* rendered
Lex(addr) == CHOOSE a \in AddressTexts : Text(a) = addr

\* Url::parse(&target.addr): <<>> for a ParseError, else <<the Url>>.  A Url
\* is absolute: a text without a scheme is refused (relative URL without a
\* base), and so is an http URL without a host.
UrlParse(a) ==
    IF a.illegal \/ a.scheme = "" \/ a.authority = ""
    THEN <<>>
    ELSE <<[scheme |-> a.scheme, host |-> a.authority,
            path |-> IF a.path = "" THEN "/" ELSE a.path]>>

\* HttpHealthCheck::check for the backend at hcIdx inside check_and_report:
\* `Url::parse(&target.addr).unwrap()` panics on an address that is no Url,
\* which ends the run; otherwise the request is sent and answers ok or not
HttpCheck(ok) ==
    /\ built = "ok"
    /\ hcPc = "running"
    /\ IF UrlParse(Lex(backends[hcIdx + 1].addr)) = <<>>
       THEN /\ ~ok
            /\ hcPc' = "panicked"
            /\ UNCHANGED <<ctorVars, backends, kind, weighted, current,
                           health_check, health, hcIdx, runLog, prevLog,
                           nRuns, probes, lastNext, queried, returned,
                           obsLog, everFailed, serviceVars, taskVars>>
       ELSE CheckAndReport(ok)

\* run_health_check() on the load balancer that was built
BuiltRunHealthCheck ==
    /\ built = "ok"
    /\ RunHealthCheck

\* no constructor has been called yet; the HttpHealthCheck that will be set
\* has threshold 1 in both directions
InitHttpCheck ==
    /\ backends = <<>>
    /\ kind = "RoundRobin"
    /\ weighted = <<>>
    /\ current = 0
    /\ health_check = <<[fail |-> 1, ok |-> 1]>>
    /\ health = NewHealth(<<>>)
    /\ hcPc = "idle"
    /\ hcIdx = 0
    /\ runLog = <<>>
    /\ prevLog = <<>>
    /\ nRuns = 0
    /\ probes = 0
    /\ lastNext = IdleLastNext
    /\ queried = <<>>
    /\ returned = <<>>
    /\ obsLog = <<>>
    /\ everFailed = FALSE
    /\ addresses = <<>>
    /\ given = <<>>
    /\ built = "none"
    /\ NoTasks
    /\ NoServices

NextHttpCheck ==
    \/ \E addrs \in AddressLists : TryFromVec(addrs)
    \/ BuiltRunHealthCheck
    \/ \E ok \in BOOLEAN : HttpCheck(ok)
    \/ BuiltNext

SpecHttpCheck == InitHttpCheck /\ [][NextHttpCheck]_vars

\* C36: for every address try_from_vec accepts HttpHealthCheck::check
\* returns success or failure and never aborts: every run_health_check()
\* that was started on the load balancer probes the whole pool and returns.
C36_CheckNeverAborts ==
    /\ hcPc # "panicked"
    /\ (built = "ok" /\ hcPc = "idle" /\ nRuns > 0) =>
          Len(runLog) = Len(backends)

\* C37: the iteration bound next() passes to select_with equals the number
\* of backends of the pool, for every pool size, 65536 and more included, so
\* a next() on a non-empty pool draws at least one candidate.
C37_BoundIsPoolSize ==
    /\ [](IterationBound = Len(backends))
    /\ [][(lastNext'.tick # lastNext.tick /\ Len(backends) > 0) =>
            lastNext'.calls >= 1]_vars

====
